---- MODULE Spec2Model ----
(***************************************************************************)
(* The SCTE-35 decoder of the scte35 crate: the bit reader (Bits), the     *)
(* splice command and splice descriptor decoders, the segmentation UPID    *)
(* decoders and the section frame, as operators over a byte buffer, and a  *)
(* state machine that applies each decoder to every buffer of a bounded    *)
(* family of inputs.                                                       *)
(*                                                                         *)
(* A reader state is a record                                              *)
(*   pos    bits consumed so far                                           *)
(*   nfe    the non_fatal_errors vector                                    *)
(*   fail   "none", "Err" (a ParseError returned through ?) or "Panic"     *)
(*   err    the ParseError, as a tuple, when fail = "Err"                  *)
(*   short  some read or validate met fewer bits than it asked for         *)
(*   build  "debug" or "release": the outcome of the two operations whose  *)
(*          result depends on the build (an unchecked consume, an          *)
(*          unchecked u32 subtraction)                                     *)
(*   loc    the local variables of the decoder in progress, by name        *)
(*   stack  the local variables of its callers                             *)
(*   ret    the value the last decoder returned                            *)
(* Once fail is not "none" every later operation leaves the state alone:   *)
(* this is the early return of ? and the unwinding of a panic.             *)
(*                                                                         *)
(* Integers read from more than 24 bits are kept as two limbs              *)
(* <<high bits, low 24 bits>>, so that 32-, 33-, 40- and 48-bit fields     *)
(* keep their full width.                                                  *)
(***************************************************************************)
EXTENDS Integers, Sequences, FiniteSets, TLC

VARIABLES data, hex, phase, op, arg, result, bits, decoded

vars == <<data, hex, phase, op, arg, result, bits, decoded>>

(***************************************************************************)
(* Bits: the reader                                                        *)
(***************************************************************************)

RECURSIVE Pow2(_)
Pow2(n) == IF n = 0 THEN 1 ELSE 2 * Pow2(n - 1)

Bit(p) == (data[(p \div 8) + 1] \div Pow2(7 - (p % 8))) % 2

\* the n bits at bit offset p, most significant first
RECURSIVE ReadBitsAt(_, _, _)
ReadBitsAt(p, n, acc) ==
    IF n = 0 THEN acc
    ELSE IF p % 8 = 0 /\ n >= 8
         THEN ReadBitsAt(p + 8, n - 8, acc * 256 + data[(p \div 8) + 1])
         ELSE ReadBitsAt(p + 1, n - 1, acc * 2 + Bit(p))

Wide(p, n) ==
    IF n <= 24 THEN ReadBitsAt(p, n, 0)
    ELSE <<ReadBitsAt(p, n - 24, 0), ReadBitsAt(p + n - 24, 24, 0)>>

Zero(n) == IF n <= 24 THEN 0 ELSE <<0, 0>>

NewBits(bld) ==
    [pos |-> 0, nfe |-> <<>>, fail |-> "none", err |-> <<>>, short |-> FALSE,
     build |-> bld, loc |-> <<>>, stack |-> <<>>, ret |-> <<>>]

Live(b) == b.fail = "none"

\* let name = v
Set(b, name, v) == IF Live(b) THEN [b EXCEPT !.loc = (name :> v) @@ @] ELSE b

\* entry to a decoder, and its return of Ok(v) or of an Option
Enter(b) ==
    IF Live(b) THEN [b EXCEPT !.stack = Append(@, b.loc), !.loc = <<>>] ELSE b

Return(b, v) ==
    IF Live(b)
    THEN [b EXCEPT !.ret = v, !.loc = b.stack[Len(b.stack)],
                   !.stack = SubSeq(@, 1, Len(@) - 1)]
    ELSE b

\* let name = the value the decoder just called returned
Bind(b, name) == Set(b, name, b.ret)

\* let name = Some(the value the decoder just called returned)
BindSome(b, name) == Set(b, name, <<b.ret>>)

bits_remaining(b) ==
    IF Len(data) * 8 > b.pos THEN Len(data) * 8 - b.pos ELSE 0

\* the value read_bits(n) yields; 0 when there is none
PeekBits(b, n) ==
    IF Live(b) /\ bits_remaining(b) >= n THEN Wide(b.pos, n) ELSE Zero(n)

\* a reader that moves on by whole bytes
ReadBits_whole_bytes(b, n) ==
    IF ~Live(b) THEN b
    ELSE IF bits_remaining(b) >= n THEN [b EXCEPT !.pos = @ + 8 * ((n + 7) \div 8)]
    ELSE [b EXCEPT !.fail = "Panic", !.short = TRUE]

\* read_bits(n).unwrap(): the state after it
ReadBits(b, n) ==
    IF ~Live(b) THEN b
    ELSE IF bits_remaining(b) >= n THEN [b EXCEPT !.pos = @ + n]
    ELSE [b EXCEPT !.fail = "Panic", !.short = TRUE]

\* let name = bits.u8(n), and so on
u8(b, name, n) == Set(ReadBits(b, n), name, PeekBits(b, n) % 256)
u16(b, name, n) == Set(ReadBits(b, n), name, PeekBits(b, n) % 65536)
u32(b, name, n) == Set(ReadBits(b, n), name, PeekBits(b, n))
u64(b, name, n) == Set(ReadBits(b, n), name, PeekBits(b, n))
bool(b, name) == Set(ReadBits(b, 1), name, PeekBits(b, 1) = 1)
byte(b, name) == u8(b, name, 8)

\* consume(n) does not check that n bits are left: a debug build stops at the
\* reader's debug assertion, a release build moves on past the end
consume(b, n) ==
    IF ~Live(b) THEN b
    ELSE IF bits_remaining(b) >= n THEN [b EXCEPT !.pos = @ + n]
    ELSE IF b.build = "debug" THEN [b EXCEPT !.fail = "Panic", !.short = TRUE]
    ELSE [b EXCEPT !.pos = @ + n, !.short = TRUE]

\* the buffer read_bytes leaves: filled only when all n bytes are there,
\* zeroed as it was allocated otherwise
Buffer(b, n) ==
    IF Live(b) /\ bits_remaining(b) >= 8 * n
    THEN [i \in 1..n |-> ReadBitsAt(b.pos + 8 * (i - 1), 8, 0)]
    ELSE [i \in 1..n |-> 0]

\* read_bytes: the state after it; its result is not looked at
ReadBytes(b, n) ==
    IF ~Live(b) THEN b
    ELSE IF bits_remaining(b) >= 8 * n THEN [b EXCEPT !.pos = @ + 8 * n]
    ELSE IF n = 0 THEN b
    ELSE [b EXCEPT !.short = TRUE]

bytes(b, name, n) == Set(ReadBytes(b, n), name, Buffer(b, n))

Fail(b, e) == IF Live(b) THEN [b EXCEPT !.fail = "Err", !.err = e] ELSE b

Panic(b) == IF Live(b) THEN [b EXCEPT !.fail = "Panic"] ELSE b

\* validate with actual_bits_left <= expected_minimum_bits_left as its test
validate_inclusive(b, expected_minimum_bits_left, description) ==
    IF ~Live(b) THEN b
    ELSE IF bits_remaining(b) <= expected_minimum_bits_left
    THEN [b EXCEPT !.fail = "Err", !.short = TRUE,
                   !.err = <<"UnexpectedEndOfData", expected_minimum_bits_left,
                             bits_remaining(b), description>>]
    ELSE b

validate(b, expected_minimum_bits_left, description) ==
    IF ~Live(b) THEN b
    ELSE IF bits_remaining(b) < expected_minimum_bits_left
    THEN [b EXCEPT !.fail = "Err", !.short = TRUE,
                   !.err = <<"UnexpectedEndOfData", expected_minimum_bits_left,
                             bits_remaining(b), description>>]
    ELSE b

push_non_fatal_error(b, error) ==
    IF Live(b) THEN [b EXCEPT !.nfe = Append(@, error)] ELSE b

\* std::str::from_utf8 on a byte sequence
IsCont(x) == x >= 128 /\ x <= 191

RECURSIVE Utf8Valid(_)
Utf8Valid(s) ==
    IF Len(s) = 0 THEN TRUE
    ELSE LET c == s[1]
             n == Len(s)
         IN IF c < 128 THEN Utf8Valid(Tail(s))
            ELSE IF c >= 194 /\ c <= 223
                 THEN n >= 2 /\ IsCont(s[2]) /\ Utf8Valid(SubSeq(s, 3, n))
            ELSE IF c >= 224 /\ c <= 239
                 THEN /\ n >= 3 /\ IsCont(s[2]) /\ IsCont(s[3])
                      /\ (c = 224 => s[2] >= 160)
                      /\ (c = 237 => s[2] <= 159)
                      /\ Utf8Valid(SubSeq(s, 4, n))
            ELSE IF c >= 240 /\ c <= 244
                 THEN /\ n >= 4 /\ IsCont(s[2]) /\ IsCont(s[3]) /\ IsCont(s[4])
                      /\ (c = 240 => s[2] >= 144)
                      /\ (c = 244 => s[2] <= 143)
                      /\ Utf8Valid(SubSeq(s, 5, n))
            ELSE FALSE

\* let name = bits.string(n, description)?
string(b, name, n, error_description) ==
    IF Utf8Valid(Buffer(b, n)) THEN bytes(b, name, n)
    ELSE Fail(ReadBytes(b, n), <<"Utf8ConversionError", error_description>>)

\* Option values: <<>> is None, <<x>> is Some(x)
None == <<>>
Some(x) == <<x>>

\* let name = r?, for a Result r that holds a value or a ParseError
Try(b, name, r) ==
    IF ~Live(b) THEN b ELSE IF r.ok THEN Set(b, name, r.v) ELSE Fail(b, r.e)

(***************************************************************************)
(* Splice descriptors                                                      *)
(***************************************************************************)

CUEI == <<67, 5588297>>    \* 0x43554549 = 1129661769, as two limbs

DescriptorLengthExpectation_new(b) ==
    Set(b, "expectation",
        [descriptor_bits_length |-> b.loc.descriptor_bits_length,
         bits_remaining_before_descriptor |-> bits_remaining(b),
         expected_bits_remaining_after_descriptor |->
             bits_remaining(b) - b.loc.descriptor_bits_length])

DescriptorLengthExpectation_validate(b, validation_description) ==
    IF ~Live(b) THEN b
    ELSE validate(b, b.loc.descriptor_bits_length, validation_description)

\* let expectation = DescriptorLengthExpectation::try_from(bits, description)?
DescriptorLengthExpectation_try_from(b, validation_description) ==
    DescriptorLengthExpectation_new(
        DescriptorLengthExpectation_validate(
            Set(ReadBits(b, 8), "descriptor_bits_length", PeekBits(b, 8) * 8),
            validation_description))

\* a length check that records nothing
validate_non_fatal_silent(b, splice_descriptor_tag) == b

\* expectation.validate_non_fatal(bits, tag)
validate_non_fatal(b, splice_descriptor_tag) ==
    IF ~Live(b) THEN b
    ELSE IF b.loc.expectation.expected_bits_remaining_after_descriptor
            # bits_remaining(b)
    THEN push_non_fatal_error(b,
            <<"UnexpectedSpliceDescriptorLength",
              b.loc.expectation.descriptor_bits_length,
              b.loc.expectation.bits_remaining_before_descriptor - bits_remaining(b),
              splice_descriptor_tag>>)
    ELSE b

AvailDescriptor_new(b) ==
    Return(b, [tag |-> "AvailDescriptor", identifier |-> b.loc.identifier,
               provider_avail_id |-> b.loc.provider_avail_id])

\* each decoder reads as its source does from the innermost call outwards
AvailDescriptor_try_from(b) ==
    AvailDescriptor_new(
        validate_non_fatal(
            u32(u32(DescriptorLengthExpectation_try_from(Enter(b), "AvailDescriptor"),
                    "identifier", 32),
                "provider_avail_id", 32),
            "AvailDescriptor"))

DTMFDescriptor_dtmf_chars(b) ==
    IF ~Live(b) THEN b
    ELSE string(b, "dtmf_chars", b.loc.dtmf_count, "DTMFDescriptor dtmf_chars")

DTMFDescriptor_new(b) ==
    Return(b, [tag |-> "DTMFDescriptor", identifier |-> b.loc.identifier,
               preroll |-> b.loc.preroll, dtmf_chars |-> b.loc.dtmf_chars])

DTMFDescriptor_try_from(b) ==
    DTMFDescriptor_new(
        validate_non_fatal(
            DTMFDescriptor_dtmf_chars(
                consume(
                    u8(byte(u32(DescriptorLengthExpectation_try_from(Enter(b),
                                                                     "DTMFDescriptor"),
                                "identifier", 32),
                            "preroll"),
                       "dtmf_count", 3),
                    5)),
            "DTMFDescriptor"))

TimeDescriptor_new(b) ==
    Return(b, [tag |-> "TimeDescriptor", identifier |-> b.loc.identifier,
               tai_seconds |-> b.loc.tai_seconds, tai_ns |-> b.loc.tai_ns,
               utc_offset |-> b.loc.utc_offset])

TimeDescriptor_try_from(b) ==
    TimeDescriptor_new(
        validate_non_fatal(
            u16(u32(u64(u32(DescriptorLengthExpectation_try_from(Enter(b),
                                                                 "TimeDescriptor"),
                            "identifier", 32),
                        "tai_seconds", 48),
                    "tai_ns", 32),
                "utc_offset", 16),
            "TimeDescriptor"))

AudioCodingMode_try_from(value) ==
    IF value \in 0..7
    THEN [ok |-> TRUE,
          v |-> <<"OneAndOne", "OneZero", "TwoZero", "ThreeZero", "TwoOne",
                  "ThreeOne", "TwoTwo", "ThreeTwo">>[value + 1]]
    ELSE [ok |-> FALSE, e |-> <<"UnrecognisedAudioCodingMode", value>>]

\* bsmod 7 without an acmod taken as Karaoke
BitStreamMode_try_from_acmod_optional(bsmod, acmod) ==
    IF bsmod \in 0..6
    THEN [ok |-> TRUE,
          v |-> <<"CompleteMain", "MusicAndEffects", "VisuallyImpaired",
                  "HearingImpaired", "Dialogue", "Commentary", "Emergeny">>[bsmod + 1]]
    ELSE IF bsmod = 7 /\ acmod = <<1>> THEN [ok |-> TRUE, v |-> "VoiceOver"]
    ELSE IF bsmod = 7 /\ (acmod = <<>> \/ acmod[1] \in 2..7)
         THEN [ok |-> TRUE, v |-> "Karaoke"]
    ELSE [ok |-> FALSE, e |-> <<"InvalidBitStreamMode", bsmod, acmod>>]

BitStreamMode_try_from(bsmod, acmod) ==
    IF bsmod \in 0..6
    THEN [ok |-> TRUE,
          v |-> <<"CompleteMain", "MusicAndEffects", "VisuallyImpaired",
                  "HearingImpaired", "Dialogue", "Commentary", "Emergeny">>[bsmod + 1]]
    ELSE IF bsmod = 7 /\ acmod = Some(1) THEN [ok |-> TRUE, v |-> "VoiceOver"]
    ELSE IF bsmod = 7 /\ acmod # None /\ acmod[1] \in 2..7
         THEN [ok |-> TRUE, v |-> "Karaoke"]
    ELSE [ok |-> FALSE, e |-> <<"InvalidBitStreamMode", bsmod, acmod>>]

MaxNumberOfEncodedChannels_new(value) ==
    IF value \in 0..5
    THEN <<"One", "Two", "Three", "Four", "Five", "Six">>[value + 1]
    ELSE <<"Unknown", value>>

\* the two branches of Component::try_from, after the flag is read
\* the branch of Component::try_from taken when the flag is set, after acmod
Component_audio_coding_mode(b) ==
    IF ~Live(b) THEN b
    ELSE Set(Try(Try(b, "audio_coding_mode", AudioCodingMode_try_from(b.loc.acmod)),
                 "bit_stream_mode",
                 BitStreamMode_try_from(b.loc.bsmod, Some(b.loc.acmod))),
             "num_channels",
             <<"AudioCodingMode", AudioCodingMode_try_from(b.loc.acmod).v>>)

\* the other branch, after the three bits of the channel count
Component_max_number_of_encoded_channels(b) ==
    IF ~Live(b) THEN b
    ELSE Try(Set(b, "num_channels",
                 <<"MaxNumberOfEncodedChannels",
                   MaxNumberOfEncodedChannels_new(b.loc.max_number_raw_value)>>),
             "bit_stream_mode", BitStreamMode_try_from(b.loc.bsmod, None))

Component_num_channels(b) ==
    IF ~Live(b) THEN b
    ELSE IF b.loc.flag
    THEN Component_audio_coding_mode(u8(b, "acmod", 3))
    ELSE Component_max_number_of_encoded_channels(u8(b, "max_number_raw_value", 3))

Component_new(b) ==
    Return(b, [component_tag |-> b.loc.component_tag, iso_code |-> b.loc.iso_code,
               bit_stream_mode |-> b.loc.bit_stream_mode,
               num_channels |-> b.loc.num_channels,
               full_srvc_audio |-> b.loc.full_srvc_audio])

Component_try_from(b) ==
    Component_new(
        bool(Component_num_channels(
                 bool(u8(u32(byte(Enter(b), "component_tag"), "iso_code", 24),
                         "bsmod", 3),
                      "flag")),
             "full_srvc_audio"))

\* for _ in 0..audio_count { components.push(Component::try_from(bits)?) }
RECURSIVE AudioComponents(_, _, _)
RECURSIVE AudioComponents_push(_, _, _)
AudioComponents(b, count, components) ==
    IF ~Live(b) THEN b
    ELSE IF count = 0 THEN Set(b, "components", components)
    ELSE AudioComponents_push(Component_try_from(b), count, components)

AudioComponents_push(c, count, components) ==
    IF ~Live(c) THEN c
    ELSE AudioComponents(c, count - 1, Append(components, c.ret))

AudioDescriptor_components(b) ==
    IF ~Live(b) THEN b ELSE AudioComponents(b, b.loc.audio_count, <<>>)

AudioDescriptor_new(b) ==
    Return(b, [tag |-> "AudioDescriptor", identifier |-> b.loc.identifier,
               components |-> b.loc.components])

AudioDescriptor_try_from(b) ==
    AudioDescriptor_new(
        validate_non_fatal(
            AudioDescriptor_components(
                consume(
                    u8(u32(DescriptorLengthExpectation_try_from(Enter(b),
                                                                "AudioDescriptor"),
                           "identifier", 32),
                       "audio_count", 4),
                    4)),
            "AudioDescriptor"))

(***************************************************************************)
(* Segmentation descriptor: type ids and UPIDs                             *)
(***************************************************************************)

\* the match arms of SegmentationTypeID::try_from, in order
SegmentationTypeIDTable ==
    <<
       <<0, "NotIndicated">>, <<1, "ContentIdentification">>, <<16, "ProgramStart">>,
       <<17, "ProgramEnd">>, <<18, "ProgramEarlyTermination">>,
       <<19, "ProgramBreakaway">>, <<20, "ProgramResumption">>,
       <<21, "ProgramRunoverPlanned">>, <<22, "ProgramRunoverUnplanned">>,
       <<23, "ProgramOverlapStart">>, <<24, "ProgramBlackoutOverride">>,
       <<25, "ProgramJoin">>, <<32, "ChapterStart">>, <<33, "ChapterEnd">>,
       <<34, "BreakStart">>, <<35, "BreakEnd">>, <<36, "OpeningCreditStart">>,
       <<37, "OpeningCreditEnd">>, <<38, "ClosingCreditStart">>,
       <<39, "ClosingCreditEnd">>, <<48, "ProviderAdvertisementStart">>,
       <<49, "ProviderAdvertisementEnd">>, <<50, "DistributorAdvertisementStart">>,
       <<51, "DistributorAdvertisementEnd">>,
       <<52, "ProviderPlacementOpportunityStart">>,
       <<53, "ProviderPlacementOpportunityEnd">>,
       <<54, "DistributorPlacementOpportunityStart">>,
       <<55, "DistributorPlacementOpportunityEnd">>,
       <<56, "ProviderOverlayPlacementOpportunityStart">>,
       <<57, "ProviderOverlayPlacementOpportunityEnd">>,
       <<58, "DistributorOverlayPlacementOpportunityStart">>,
       <<59, "DistributorOverlayPlacementOpportunityEnd">>,
       <<60, "ProviderPromoStart">>, <<61, "ProviderPromoEnd">>,
       <<62, "DistributorPromoStart">>, <<63, "DistributorPromoEnd">>,
       <<64, "UnscheduledEventStart">>, <<65, "UnscheduledEventEnd">>,
       <<66, "AlternateContentOpportunityStart">>,
       <<67, "AlternateContentOpportunityEnd">>, <<68, "ProviderAdBlockStart">>,
       <<69, "ProviderAdBlockEnd">>, <<70, "DistributorAdBlockStart">>,
       <<71, "DistributorAdBlockEnd">>, <<80, "NetworkStart">>, <<81, "NetworkEnd">>
    >>

\* the match arms of SegmentationTypeID::value, in order
SegmentationTypeIDValueTable ==
    <<
       <<"NotIndicated", 0>>, <<"ContentIdentification", 1>>, <<"ProgramStart", 16>>,
       <<"ProgramEnd", 17>>, <<"ProgramEarlyTermination", 18>>,
       <<"ProgramBreakaway", 19>>, <<"ProgramResumption", 20>>,
       <<"ProgramRunoverPlanned", 21>>, <<"ProgramRunoverUnplanned", 22>>,
       <<"ProgramOverlapStart", 23>>, <<"ProgramBlackoutOverride", 24>>,
       <<"ProgramJoin", 25>>, <<"ChapterStart", 32>>, <<"ChapterEnd", 33>>,
       <<"BreakStart", 34>>, <<"BreakEnd", 35>>, <<"OpeningCreditStart", 36>>,
       <<"OpeningCreditEnd", 37>>, <<"ClosingCreditStart", 38>>,
       <<"ClosingCreditEnd", 39>>, <<"ProviderAdvertisementStart", 48>>,
       <<"ProviderAdvertisementEnd", 49>>, <<"DistributorAdvertisementStart", 50>>,
       <<"DistributorAdvertisementEnd", 51>>,
       <<"ProviderPlacementOpportunityStart", 52>>,
       <<"ProviderPlacementOpportunityEnd", 53>>,
       <<"DistributorPlacementOpportunityStart", 54>>,
       <<"DistributorPlacementOpportunityEnd", 55>>,
       <<"ProviderOverlayPlacementOpportunityStart", 56>>,
       <<"ProviderOverlayPlacementOpportunityEnd", 57>>,
       <<"DistributorOverlayPlacementOpportunityStart", 58>>,
       <<"DistributorOverlayPlacementOpportunityEnd", 59>>,
       <<"ProviderPromoStart", 60>>, <<"ProviderPromoEnd", 61>>,
       <<"DistributorPromoStart", 62>>, <<"DistributorPromoEnd", 63>>,
       <<"UnscheduledEventStart", 64>>, <<"UnscheduledEventEnd", 65>>,
       <<"AlternateContentOpportunityStart", 66>>,
       <<"AlternateContentOpportunityEnd", 67>>, <<"ProviderAdBlockStart", 68>>,
       <<"ProviderAdBlockEnd", 69>>, <<"DistributorAdBlockStart", 70>>,
       <<"DistributorAdBlockEnd", 71>>, <<"NetworkStart", 80>>, <<"NetworkEnd", 81>>
    >>

\* no closing arm: a byte outside the table is taken as NotIndicated
SegmentationTypeID_try_from_open(value) ==
    [ok |-> TRUE,
     v |-> IF \E i \in 1..Len(SegmentationTypeIDTable) :
                  SegmentationTypeIDTable[i][1] = value
           THEN SegmentationTypeIDTable[
                    CHOOSE i \in 1..Len(SegmentationTypeIDTable) :
                        SegmentationTypeIDTable[i][1] = value][2]
           ELSE "NotIndicated"]

SegmentationTypeID_try_from(value) ==
    IF \E i \in 1..Len(SegmentationTypeIDTable) : SegmentationTypeIDTable[i][1] = value
    THEN [ok |-> TRUE,
          v |-> SegmentationTypeIDTable[
                  CHOOSE i \in 1..Len(SegmentationTypeIDTable) :
                      SegmentationTypeIDTable[i][1] = value][2]]
    ELSE [ok |-> FALSE, e |-> <<"UnrecognisedSegmentationTypeID", value>>]

SegmentationTypeID_value(id) ==
    SegmentationTypeIDValueTable[
        CHOOSE i \in 1..Len(SegmentationTypeIDValueTable) :
            SegmentationTypeIDValueTable[i][1] = id][2]

\* the match arms of SegmentationUPIDType::try_from: raw value 0x00..0x10
SegmentationUPIDTypeTable ==
    <<"NotUsed", "UserDefined", "ISCI", "AdID", "UMID", "DeprecatedISAN", "ISAN",
      "TID", "TI", "ADI", "EIDR", "ATSCContentIdentifier", "MPU", "MID",
      "ADSInformation", "URI", "UUID">>

SegmentationUPIDType_try_from(value) ==
    IF value \in 0..16
    THEN [ok |-> TRUE, v |-> SegmentationUPIDTypeTable[value + 1]]
    ELSE [ok |-> FALSE, e |-> <<"UnrecognisedSegmentationUPIDType", value>>]

\* a UPID length check that accepts every length
upid_validate_any(b, upid_length, expected_length, upid_type) == b

\* validate(upid_length, expected_length, upid_type) of segmentation_descriptor.rs
upid_validate(b, upid_length, expected_length, upid_type) ==
    IF upid_length # expected_length
    THEN Fail(b, <<"UnexpectedSegmentationUPIDLength", upid_length,
                   expected_length, upid_type>>)
    ELSE b

\* the k hexadecimal digits of v, most significant first ({:0kx}, upper-cased);
\* a character is its index in CHAR_ARRAY
RECURSIVE HexDigits(_, _)
HexDigits(v, k) ==
    IF k = 0 THEN <<>> ELSE Append(HexDigits(v \div 16, k - 1), v % 16)

\* {:08x} of a 32-bit value held as <<high 8 bits, low 24 bits>>
Hex32(w) == HexDigits(w[1], 2) \o HexDigits(w[2], 6)

RECURSIVE JoinSections(_)
JoinSections(ss) == IF Len(ss) = 0 THEN <<>> ELSE ss[1] \o JoinSections(Tail(ss))

\* if sum >= 36 { sum -= 36 }
check_sum_inclusive(adjusted_sum, decimal_value) ==
    IF (adjusted_sum + decimal_value) % 256 >= 36
    THEN ((adjusted_sum + decimal_value) % 256) - 36
    ELSE (adjusted_sum + decimal_value) % 256

\* let mut sum = adjusted_sum + decimal_value; if sum > 36 { sum -= 36 },
\* in u8 arithmetic
check_sum(adjusted_sum, decimal_value) ==
    IF (adjusted_sum + decimal_value) % 256 > 36
    THEN ((adjusted_sum + decimal_value) % 256) - 36
    ELSE (adjusted_sum + decimal_value) % 256

\* let mut product = sum * 2; if product >= 37 { product -= 37 }
check_product(sum) ==
    IF (sum * 2) % 256 >= 37 THEN ((sum * 2) % 256) - 37 ELSE (sum * 2) % 256

\* the fold of check_char over the hexadecimal digits, in u8 arithmetic (the
\* test of the accumulator's range has it evaluated at every step)
RECURSIVE CheckFold(_, _)
CheckFold(adjusted_sum, chars) ==
    IF Len(chars) = 0 \/ adjusted_sum > 255 THEN adjusted_sum
    ELSE CheckFold(check_product(check_sum(adjusted_sum, chars[1])), Tail(chars))

CHAR_ARRAY_LEN == 36

\* the index in CHAR_ARRAY of the character for adjusted_product, or -1 when
\* CHAR_ARRAY.get(37 - adjusted_product) finds nothing
check_char_index(adjusted_product) ==
    IF adjusted_product = 1 THEN 0
    ELSE IF adjusted_product <= 37 /\ 37 - adjusted_product < CHAR_ARRAY_LEN
         THEN 37 - adjusted_product
    ELSE -1

\* no filter: the check characters emitted so far stay in
AllSections(ss) == ss

\* filter(|s| s.chars().count() > 1)
RECURSIVE LongSections(_)
LongSections(ss) ==
    IF Len(ss) = 0 THEN <<>>
    ELSE IF Len(ss[1]) > 1 THEN <<ss[1]>> \o LongSections(Tail(ss))
    ELSE LongSections(Tail(ss))

\* check_char: the index in CHAR_ARRAY of the check character, or -1 when the
\* lookup CHAR_ARRAY.get(37 - adjusted_product) finds nothing
check_char(isan) == check_char_index(CheckFold(36, JoinSections(LongSections(isan))))

CheckIndices(version) ==
    CASE version = "DeprecatedISAN" -> {4}
      [] version = "VersionedISAN" -> {4, 7}
      [] version = "Eidr" -> {5}

\* for i in 0..index_max, which leaves the last index out
IndexMax_exclusive(version) ==
    CASE version = "DeprecatedISAN" -> 3
      [] version = "VersionedISAN" -> 6
      [] version = "Eidr" -> 4

IndexMax(version) ==
    CASE version = "DeprecatedISAN" -> 4
      [] version = "VersionedISAN" -> 7
      [] version = "Eidr" -> 5

\* the loop of HyphenSeparatedCheckedHex::read over 0..=index_max
RECURSIVE HexSections(_, _, _, _)
HexSections(b, version, i, sections) ==
    IF ~Live(b) THEN b
    ELSE IF i > IndexMax(version) THEN Set(b, "hex", sections)
    ELSE IF i \in CheckIndices(version)
         THEN LET c == check_char(sections)
              IN IF c < 0 THEN Panic(b)
                 ELSE HexSections(b, version, i + 1, Append(sections, <<c>>))
         ELSE LET b1 == u16(b, "section", 16)
              IN IF ~Live(b1) THEN b1
                 ELSE HexSections(b1, version, i + 1,
                                  Append(sections, HexDigits(b1.loc.section, 4)))

\* let hex = check.read(bits): the sections that are joined with "-"
HyphenSeparatedCheckedHex_read(b, version) == HexSections(b, version, 0, <<>>)

\* for _ in 1..8: one group fewer
RECURSIVE Umid_from_one(_, _, _)
Umid_from_one(b, k, umid_vec) ==
    IF ~Live(b) THEN b
    ELSE IF k <= 1 THEN Set(b, "hex", umid_vec)
    ELSE Umid_from_one(u32(b, "group", 32), k - 1,
                       Append(umid_vec, Hex32(PeekBits(b, 32))))

\* for _ in 0..8 { umid_vec.push(format!("{:08x}", bits.u32(32))) }
RECURSIVE Umid(_, _, _)
Umid(b, k, umid_vec) ==
    IF ~Live(b) THEN b
    ELSE IF k = 0 THEN Set(b, "hex", umid_vec)
    ELSE LET b1 == u32(b, "group", 32)
         IN IF ~Live(b1) THEN b1
            ELSE Umid(b1, k - 1, Append(umid_vec, Hex32(b1.loc.group)))

\* for _ in 0..n { v.push(bits.byte()) }
RECURSIVE ReadByteLoop(_, _, _, _)
ReadByteLoop(b, name, n, acc) ==
    IF ~Live(b) THEN b
    ELSE IF n = 0 THEN Set(b, name, acc)
    ELSE LET b1 == byte(b, "byte")
         IN IF ~Live(b1) THEN b1
            ELSE ReadByteLoop(b1, name, n - 1, Append(acc, b1.loc.byte))

ATSCContentIdentifier_new(b) ==
    Return(b, [tsid |-> b.loc.tsid, end_of_day |-> b.loc.end_of_day,
               unique_for |-> b.loc.unique_for, content_id |-> b.loc.content_id])

ATSCContentIdentifier_content_id_length(b, upid_length) ==
    IF upid_length - 4 < 0
    THEN Fail(b, <<"InvalidATSCContentIdentifierInUPID", upid_length>>)
    ELSE b

ATSCContentIdentifier_try_from(b, upid_length) ==
    ATSCContentIdentifier_new(
        string(
            u16(u8(consume(
                       u16(ATSCContentIdentifier_content_id_length(Enter(b), upid_length),
                           "tsid", 16),
                       2),
                   "end_of_day", 5),
                "unique_for", 9),
            "content_id", upid_length - 4,
            "Reading content_id for ATSCContentIdentifier"))

ManagedPrivateUPID_new(b) ==
    Return(b, [format_specifier |-> b.loc.format_specifier,
               private_data |-> b.loc.private_data])

\* the length test with upid_length <= 4 refused
ManagedPrivateUPID_upid_length_inclusive(b, upid_length) ==
    IF upid_length <= 4
    THEN Fail(b, <<"InvalidMPUInSegmentationUPID", upid_length>>)
    ELSE b

ManagedPrivateUPID_upid_length(b, upid_length) ==
    IF upid_length < 4
    THEN Fail(b, <<"InvalidMPUInSegmentationUPID", upid_length>>)
    ELSE b

ManagedPrivateUPID_try_from(b, upid_length) ==
    ManagedPrivateUPID_new(
        ReadByteLoop(
            string(ManagedPrivateUPID_upid_length(Enter(b), upid_length),
                   "format_specifier", 4, "ManagedPrivateUPID"),
            "private_data", upid_length - 4, <<>>))

\* Ok(Self::<upid_type>(value)); upid_length is kept beside the value
SegmentationUPID_new(b, upid_type, upid_length, value) ==
    Return(b, [type |-> upid_type, upid_length |-> upid_length, v |-> value])

SegmentationUPID_of(b, upid_type, upid_length, name) ==
    IF ~Live(b) THEN b
    ELSE SegmentationUPID_new(b, upid_type, upid_length, b.loc[name])

RECURSIVE SegmentationUPID_try_from(_)
RECURSIVE SegmentationUPID_try_from_with_type(_, _, _)
RECURSIVE MidLoop(_, _, _)
RECURSIVE MidLoop_push(_, _, _)

\* while bits.bits_remaining() > bits_remaining_after_upid { mid.push(...) }
MidLoop(b, bits_remaining_after_upid, mid) ==
    IF ~Live(b) THEN b
    ELSE IF ~(bits_remaining(b) > bits_remaining_after_upid) THEN Set(b, "mid", mid)
    ELSE MidLoop_push(SegmentationUPID_try_from(b), bits_remaining_after_upid, mid)

MidLoop_push(c, bits_remaining_after_upid, mid) ==
    IF ~Live(c) THEN c
    ELSE MidLoop(c, bits_remaining_after_upid, Append(mid, c.ret))

SegmentationUPID_try_from_with_type(b, upid_type, upid_length) ==
    CASE upid_type = "NotUsed" ->
            SegmentationUPID_new(upid_validate(b, upid_length, 0, upid_type),
                                 upid_type, upid_length, <<>>)
      [] upid_type = "UserDefined" ->
            SegmentationUPID_of(
                string(b, "s", upid_length, "SegmentationUPIDType::UserDefined"),
                upid_type, upid_length, "s")
      [] upid_type = "ISCI" ->
            SegmentationUPID_of(
                string(upid_validate(b, upid_length, 8, upid_type), "s", upid_length,
                       "SegmentationUPIDType::ISCI"),
                upid_type, upid_length, "s")
      [] upid_type = "AdID" ->
            SegmentationUPID_of(
                string(upid_validate(b, upid_length, 12, upid_type), "s", upid_length,
                       "SegmentationUPIDType::AdID"),
                upid_type, upid_length, "s")
      [] upid_type = "UMID" ->
            SegmentationUPID_of(
                Umid(upid_validate(b, upid_length, 32, upid_type), 8, <<>>),
                upid_type, upid_length, "hex")
      [] upid_type = "DeprecatedISAN" ->
            SegmentationUPID_of(
                HyphenSeparatedCheckedHex_read(
                    upid_validate(b, upid_length, 8, upid_type), "DeprecatedISAN"),
                upid_type, upid_length, "hex")
      [] upid_type = "ISAN" ->
            SegmentationUPID_of(
                HyphenSeparatedCheckedHex_read(
                    upid_validate(b, upid_length, 12, upid_type), "VersionedISAN"),
                upid_type, upid_length, "hex")
      [] upid_type = "TID" ->
            SegmentationUPID_of(
                string(upid_validate(b, upid_length, 12, upid_type), "s", upid_length,
                       "SegmentationUPIDType::TID"),
                upid_type, upid_length, "s")
      [] upid_type = "TI" ->
            SegmentationUPID_of(
                bytes(upid_validate(b, upid_length, 8, upid_type), "s", 8),
                upid_type, upid_length, "s")
      [] upid_type = "ADI" ->
            SegmentationUPID_of(
                string(b, "s", upid_length, "SegmentationUPIDType::ADI"),
                upid_type, upid_length, "s")
      [] upid_type = "EIDR" ->
            SegmentationUPID_of(
                HyphenSeparatedCheckedHex_read(
                    u16(upid_validate(b, upid_length, 12, upid_type), "decimal", 16),
                    "Eidr"),
                upid_type, upid_length, "hex")
      [] upid_type = "ATSCContentIdentifier" ->
            SegmentationUPID_of(
                Bind(ATSCContentIdentifier_try_from(b, upid_length), "atsc"),
                upid_type, upid_length, "atsc")
      [] upid_type = "MPU" ->
            SegmentationUPID_of(
                Bind(ManagedPrivateUPID_try_from(b, upid_length), "mpu"),
                upid_type, upid_length, "mpu")
      [] upid_type = "MID" ->
            SegmentationUPID_of(
                MidLoop(b, bits_remaining(b) - upid_length * 8, <<>>),
                upid_type, upid_length, "mid")
      [] upid_type = "ADSInformation" ->
            SegmentationUPID_of(
                string(b, "s", upid_length, "SegmentationUPIDType::ADSInformation"),
                upid_type, upid_length, "s")
      [] upid_type = "URI" ->
            SegmentationUPID_of(
                string(b, "s", upid_length, "SegmentationUPIDType::URI"),
                upid_type, upid_length, "s")
      [] upid_type = "UUID" ->
            SegmentationUPID_of(
                string(upid_validate(b, upid_length, 16, upid_type), "s", 16,
                       "SegmentationUPIDType::UUID"),
                upid_type, upid_length, "s")

SegmentationUPID_upid_type(b) ==
    IF ~Live(b) THEN b
    ELSE Try(b, "upid_type", SegmentationUPIDType_try_from(b.loc.upid_type_raw_value))

SegmentationUPID_validate(b) ==
    IF ~Live(b) THEN b
    ELSE validate(b, b.loc.upid_length * 8, "SegmentationUPID; reading loop")

SegmentationUPID_with_type(b) ==
    IF ~Live(b) THEN b
    ELSE SegmentationUPID_try_from_with_type(b, b.loc.upid_type, b.loc.upid_length)

SegmentationUPID_try_from(b) ==
    SegmentationUPID_with_type(
        SegmentationUPID_validate(
            byte(SegmentationUPID_upid_type(byte(Enter(b), "upid_type_raw_value")),
                 "upid_length")))

SubSegmentTypes ==
    {"ProviderPlacementOpportunityStart", "DistributorPlacementOpportunityStart",
     "ProviderOverlayPlacementOpportunityStart",
     "DistributorOverlayPlacementOpportunityStart"}

SubSegment_new(b) ==
    IF ~Live(b) THEN b
    ELSE Set(b, "sub_segment",
             Some([sub_segment_num |-> b.loc.sub_segment_num,
                   sub_segments_expected |-> b.loc.sub_segments_expected]))

\* a sub-segment read that does not look at the descriptor's end
SubSegment_try_from_unbounded(b, segmentation_type_id, bits_left_after_descriptor) ==
    IF ~Live(b) THEN b
    ELSE IF bits_remaining(b) < 16 THEN Set(b, "sub_segment", None)
    ELSE IF segmentation_type_id \in SubSegmentTypes
    THEN SubSegment_new(byte(byte(b, "sub_segment_num"), "sub_segments_expected"))
    ELSE Set(b, "sub_segment", None)

\* let sub_segment = SubSegment::try_from(bits, &type_id, bits_left_after_descriptor)
SubSegment_try_from(b, segmentation_type_id, bits_left_after_descriptor) ==
    IF ~Live(b) THEN b
    ELSE IF bits_remaining(b) < 16 THEN Set(b, "sub_segment", None)
    ELSE IF bits_remaining(b) - 16 < bits_left_after_descriptor
    THEN Set(b, "sub_segment", None)
    ELSE IF segmentation_type_id \in SubSegmentTypes
    THEN SubSegment_new(byte(byte(b, "sub_segment_num"), "sub_segments_expected"))
    ELSE Set(b, "sub_segment", None)

DeviceRestrictions_try_from(value) ==
    IF value \in 0..3
    THEN <<"RestrictGroup0", "RestrictGroup1", "RestrictGroup2", "None">>[value + 1]
    ELSE "None"

DeliveryRestrictions_new(b) ==
    IF ~Live(b) THEN b
    ELSE Set(b, "delivery_restrictions",
             Some([web_delivery_allowed |-> b.loc.web_delivery_allowed,
                   no_regional_blackout |-> b.loc.no_regional_blackout,
                   archive_allowed |-> b.loc.archive_allowed,
                   device_restrictions |->
                       DeviceRestrictions_try_from(b.loc.device_restrictions)]))

ScheduledEvent_delivery_restrictions(b) ==
    IF ~Live(b) THEN b
    ELSE IF b.loc.delivery_not_restricted_flag
    THEN Set(consume(b, 5), "delivery_restrictions", None)
    ELSE DeliveryRestrictions_new(
             u8(bool(bool(bool(b, "web_delivery_allowed"), "no_regional_blackout"),
                     "archive_allowed"),
                "device_restrictions", 2))

ComponentSegmentation_new(b) ==
    [component_tag |-> b.loc.component_tag, pts_offset |-> b.loc.pts_offset]

\* for _ in 0..component_count { components.push(ComponentSegmentation {..}) }
RECURSIVE ComponentSegments(_, _, _)
ComponentSegments(b, count, components) ==
    IF ~Live(b) THEN b
    ELSE IF count = 0 THEN Set(b, "component_segments", Some(components))
    ELSE LET b1 == u64(consume(byte(b, "component_tag"), 7), "pts_offset", 33)
         IN IF ~Live(b1) THEN b1
            ELSE ComponentSegments(b1, count - 1,
                                   Append(components, ComponentSegmentation_new(b1)))

ScheduledEvent_component_count(b) ==
    IF ~Live(b) THEN b ELSE ComponentSegments(b, b.loc.component_count, <<>>)

ScheduledEvent_component_segments(b) ==
    IF ~Live(b) THEN b
    ELSE IF b.loc.program_segmentation_flag THEN Set(b, "component_segments", None)
    ELSE ScheduledEvent_component_count(byte(b, "component_count"))

ScheduledEvent_duration_value(b) ==
    IF ~Live(b) THEN b ELSE Set(b, "segmentation_duration", Some(b.loc.duration))

ScheduledEvent_segmentation_duration(b) ==
    IF ~Live(b) THEN b
    ELSE IF b.loc.segmentation_duration_flag
    THEN ScheduledEvent_duration_value(u64(b, "duration", 40))
    ELSE Set(b, "segmentation_duration", None)

ScheduledEvent_segmentation_type_id(b) ==
    IF ~Live(b) THEN b
    ELSE Try(b, "segmentation_type_id", SegmentationTypeID_try_from(b.loc.type_id_raw_value))

ScheduledEvent_sub_segment(b, bits_left_after_descriptor) ==
    IF ~Live(b) THEN b
    ELSE SubSegment_try_from(b, b.loc.segmentation_type_id, bits_left_after_descriptor)

ScheduledEvent_new(b) ==
    Return(b, [delivery_restrictions |-> b.loc.delivery_restrictions,
               component_segments |-> b.loc.component_segments,
               segmentation_duration |-> b.loc.segmentation_duration,
               segmentation_upid |-> b.loc.segmentation_upid,
               segmentation_type_id |-> b.loc.segmentation_type_id,
               segment_num |-> b.loc.segment_num,
               segments_expected |-> b.loc.segments_expected,
               sub_segment |-> b.loc.sub_segment])

\* the fields up to the UPID, and then the rest
ScheduledEvent_segmentation_upid(b) ==
    Bind(SegmentationUPID_try_from(
             ScheduledEvent_segmentation_duration(
                 ScheduledEvent_component_segments(
                     ScheduledEvent_delivery_restrictions(
                         bool(bool(bool(Enter(b), "program_segmentation_flag"),
                                   "segmentation_duration_flag"),
                              "delivery_not_restricted_flag"))))),
         "segmentation_upid")

ScheduledEvent_try_from(b, bits_left_after_descriptor) ==
    ScheduledEvent_new(
        ScheduledEvent_sub_segment(
            byte(byte(ScheduledEvent_segmentation_type_id(
                          byte(ScheduledEvent_segmentation_upid(b), "type_id_raw_value")),
                      "segment_num"),
                 "segments_expected"),
            bits_left_after_descriptor))

\* an identifier that is read and not compared
SegmentationDescriptor_identifier_unchecked(b) == b

SegmentationDescriptor_identifier(b) ==
    IF ~Live(b) THEN b
    ELSE IF b.loc.identifier # CUEI
    THEN Fail(b, <<"InvalidSegmentationDescriptorIdentifier", b.loc.identifier>>)
    ELSE b

SegmentationDescriptor_scheduled_event(b) ==
    IF ~Live(b) THEN b
    ELSE IF b.loc.segmentation_event_cancelled THEN Set(b, "scheduled_event", None)
    ELSE BindSome(ScheduledEvent_try_from(
                      b, b.loc.expectation.expected_bits_remaining_after_descriptor),
                  "scheduled_event")

SegmentationDescriptor_new(b) ==
    Return(b, [tag |-> "SegmentationDescriptor", identifier |-> b.loc.identifier,
               event_id |-> b.loc.event_id,
               scheduled_event |-> b.loc.scheduled_event])

SegmentationDescriptor_try_from(b) ==
    SegmentationDescriptor_new(
        validate_non_fatal(
            SegmentationDescriptor_scheduled_event(
                consume(
                    bool(u32(SegmentationDescriptor_identifier(
                                 u32(DescriptorLengthExpectation_try_from(
                                         Enter(b), "SegmentationDescriptor"),
                                     "identifier", 32)),
                             "event_id", 32),
                         "segmentation_event_cancelled"),
                    7)),
            "SegmentationDescriptor"))

SpliceDescriptorTag_try_from(value) ==
    IF value \in 0..4
    THEN [ok |-> TRUE,
          v |-> <<"AvailDescriptor", "DTMFDescriptor", "SegmentationDescriptor",
                  "TimeDescriptor", "AudioDescriptor">>[value + 1]]
    ELSE [ok |-> FALSE, e |-> <<"UnrecognisedSpliceDescriptorTag", value>>]

SpliceDescriptor_tag(b) ==
    IF ~Live(b) THEN b
    ELSE Try(b, "splice_descriptor_tag", SpliceDescriptorTag_try_from(b.loc.tag_raw_value))

SpliceDescriptor_match(b, tag) ==
    CASE tag = "AvailDescriptor" -> AvailDescriptor_try_from(b)
      [] tag = "DTMFDescriptor" -> DTMFDescriptor_try_from(b)
      [] tag = "SegmentationDescriptor" -> SegmentationDescriptor_try_from(b)
      [] tag = "TimeDescriptor" -> TimeDescriptor_try_from(b)
      [] tag = "AudioDescriptor" -> AudioDescriptor_try_from(b)

SpliceDescriptor_dispatch(b) ==
    IF ~Live(b) THEN b ELSE SpliceDescriptor_match(b, b.loc.splice_descriptor_tag)

SpliceDescriptor_new(b) == IF ~Live(b) THEN b ELSE Return(b, b.loc.descriptor)

SpliceDescriptor_try_from(b) ==
    SpliceDescriptor_new(
        Bind(SpliceDescriptor_dispatch(
                 SpliceDescriptor_tag(byte(Enter(b), "tag_raw_value"))),
             "descriptor"))

\* while bits.bits_remaining() > expected_end { splice_descriptors.push(...) }
RECURSIVE DescriptorLoop(_, _, _)
RECURSIVE DescriptorLoop_push(_, _, _)
DescriptorLoop(b, expected_end, splice_descriptors) ==
    IF ~Live(b) THEN b
    ELSE IF ~(bits_remaining(b) > expected_end)
    THEN Return(b, splice_descriptors)
    ELSE DescriptorLoop_push(SpliceDescriptor_try_from(b), expected_end,
                             splice_descriptors)

\* the push that puts the descriptor in front of those already there
DescriptorLoop_push_front(d, expected_end, splice_descriptors) ==
    IF ~Live(d) THEN d
    ELSE DescriptorLoop(d, expected_end, <<d.ret>> \o splice_descriptors)

DescriptorLoop_push(d, expected_end, splice_descriptors) ==
    IF ~Live(d) THEN d
    ELSE DescriptorLoop(d, expected_end, Append(splice_descriptors, d.ret))

try_splice_descriptors_loop(b, descriptor_loop_length) ==
    IF ~Live(b) THEN b
    ELSE DescriptorLoop(b, bits_remaining(b) - descriptor_loop_length * 8, <<>>)

try_splice_descriptors_from(b, descriptor_loop_length) ==
    try_splice_descriptors_loop(
        validate(Enter(b), descriptor_loop_length * 8, "SpliceDescriptor; reading loop"),
        descriptor_loop_length)

(***************************************************************************)
(* Time primitives and splice commands.  The commands call                 *)
(* SpliceTime::try_from and BreakDuration::try_from; time.rs holds the two *)
(* decoders under the name new, and those are what is modelled.            *)
(***************************************************************************)

BreakDuration_new(b) ==
    Return(b, [auto_return |-> b.loc.auto_return, duration |-> b.loc.duration])

BreakDuration_try_from(b) ==
    BreakDuration_new(
        u64(consume(bool(validate(Enter(b), 40, "BreakDuration"), "auto_return"), 6),
            "duration", 33))

SpliceTime_some(b) == Set(b, "pts_time", Some(b.loc.pts_time_value))

\* the set flag followed at once by pts_time, the 6 reserved bits not skipped
SpliceTime_pts_time_unreserved(b) ==
    IF ~Live(b) THEN b
    ELSE IF b.loc.time_specified_flag
    THEN SpliceTime_some(
             u64(validate(b, 39, "SpliceTime; timeSpecifiedFlag == 1"),
                 "pts_time_value", 33))
    ELSE Set(consume(validate(b, 7, "SpliceTime; timeSpecifiedFlag == 0"), 7),
             "pts_time", None)

SpliceTime_pts_time(b) ==
    IF ~Live(b) THEN b
    ELSE IF b.loc.time_specified_flag
    THEN SpliceTime_some(
             u64(consume(validate(b, 39, "SpliceTime; timeSpecifiedFlag == 1"), 6),
                 "pts_time_value", 33))
    ELSE Set(consume(validate(b, 7, "SpliceTime; timeSpecifiedFlag == 0"), 7),
             "pts_time", None)

SpliceTime_new(b) == Return(b, [pts_time |-> b.loc.pts_time])

SpliceTime_try_from(b) ==
    SpliceTime_new(
        SpliceTime_pts_time(
            bool(validate(Enter(b), 1, "SpliceTime; reading timeSpecifiedFlag"),
                 "time_specified_flag")))

TimeSignal_new(b) ==
    Return(b, [type |-> "TimeSignal", splice_time |-> b.loc.splice_time])

TimeSignal_try_from(b) ==
    TimeSignal_new(Bind(SpliceTime_try_from(Enter(b)), "splice_time"))

ComponentMode_new(b) ==
    [component_tag |-> b.loc.component_tag, utc_splice_time |-> b.loc.utc_splice_time]

\* for _ in 0..component_count { components.push(ComponentMode {..}) }
RECURSIVE ScheduleComponents(_, _, _)
RECURSIVE ScheduleComponents_push(_, _, _)
ScheduleComponents(b, count, components) ==
    IF ~Live(b) THEN b
    ELSE IF count = 0
    THEN Set(b, "splice_mode", <<"ComponentSpliceMode", components>>)
    ELSE ScheduleComponents_push(
             u32(byte(b, "component_tag"), "utc_splice_time", 32), count, components)

ScheduleComponents_push(c, count, components) ==
    IF ~Live(c) THEN c
    ELSE ScheduleComponents(c, count - 1, Append(components, ComponentMode_new(c)))

SpliceSchedule_program_mode(b) ==
    Set(b, "splice_mode",
        <<"ProgramSpliceMode", [utc_splice_time |-> b.loc.utc_splice_time]>>)

SpliceSchedule_component_mode(b) ==
    IF ~Live(b) THEN b ELSE ScheduleComponents(b, b.loc.component_count, <<>>)

SpliceSchedule_splice_mode(b) ==
    IF ~Live(b) THEN b
    ELSE IF b.loc.program_splice_flag
    THEN SpliceSchedule_program_mode(u32(b, "utc_splice_time", 32))
    ELSE SpliceSchedule_component_mode(byte(b, "component_count"))

\* let break_duration = if duration_flag { Some(BreakDuration::try_from(bits)?) }
break_duration(b) ==
    IF ~Live(b) THEN b
    ELSE IF b.loc.duration_flag
    THEN BindSome(BreakDuration_try_from(b), "break_duration")
    ELSE Set(b, "break_duration", None)

SpliceSchedule_ScheduledEvent_new(b) ==
    Return(b, [out_of_network_indicator |-> b.loc.out_of_network_indicator,
               splice_mode |-> b.loc.splice_mode,
               break_duration |-> b.loc.break_duration,
               unique_program_id |-> b.loc.unique_program_id,
               avail_num |-> b.loc.avail_num,
               avails_expected |-> b.loc.avails_expected])

\* ScheduledEvent::try_from of splice_schedule.rs
SpliceSchedule_ScheduledEvent_try_from(b) ==
    SpliceSchedule_ScheduledEvent_new(
        byte(byte(u16(break_duration(
                          SpliceSchedule_splice_mode(
                              consume(
                                  bool(bool(bool(Enter(b), "out_of_network_indicator"),
                                            "program_splice_flag"),
                                       "duration_flag"),
                                  5))),
                      "unique_program_id", 16),
                  "avail_num"),
             "avails_expected"))

SpliceSchedule_Event_scheduled_event(b) ==
    IF ~Live(b) THEN b
    ELSE IF b.loc.is_cancelled THEN Set(b, "scheduled_event", None)
    ELSE BindSome(SpliceSchedule_ScheduledEvent_try_from(b), "scheduled_event")

SpliceSchedule_Event_new(b) ==
    Return(b, [event_id |-> b.loc.event_id, scheduled_event |-> b.loc.scheduled_event])

\* Event::try_from of splice_schedule.rs
SpliceSchedule_Event_try_from(b) ==
    SpliceSchedule_Event_new(
        SpliceSchedule_Event_scheduled_event(
            consume(bool(u32(Enter(b), "event_id", 32), "is_cancelled"), 7)))

\* for _ in 0..splice_count { events.push(Event::try_from(bits)?) }
RECURSIVE ScheduleEvents(_, _, _)
RECURSIVE ScheduleEvents_push(_, _, _)
ScheduleEvents(b, count, events) ==
    IF ~Live(b) THEN b
    ELSE IF count = 0 THEN Set(b, "events", events)
    ELSE ScheduleEvents_push(SpliceSchedule_Event_try_from(b), count, events)

ScheduleEvents_push(c, count, events) ==
    IF ~Live(c) THEN c ELSE ScheduleEvents(c, count - 1, Append(events, c.ret))

SpliceSchedule_events(b) ==
    IF ~Live(b) THEN b ELSE ScheduleEvents(b, b.loc.splice_count, <<>>)

SpliceSchedule_new(b) == Return(b, [type |-> "SpliceSchedule", events |-> b.loc.events])

SpliceSchedule_try_from(b) ==
    SpliceSchedule_new(SpliceSchedule_events(byte(Enter(b), "splice_count")))

\* let mut bytes_left = splice_command_length - 4, and the loop on it.  The
\* subtraction is an unchecked u32 one: below 4 a debug build panics and a
\* release build wraps to a count no buffer can satisfy, so the loop reads
\* every byte left and panics on the next one
PrivateCommand_private_bytes(b, splice_command_length) ==
    IF ~Live(b) THEN b
    ELSE IF splice_command_length >= 4
    THEN ReadByteLoop(b, "private_bytes", splice_command_length - 4, <<>>)
    ELSE IF b.build = "debug" THEN Panic(b)
    ELSE ReadByteLoop(b, "private_bytes", (bits_remaining(b) \div 8) + 1, <<>>)

PrivateCommand_new(b) ==
    Return(b, [type |-> "PrivateCommand", identifier |-> b.loc.identifier,
               private_bytes |-> b.loc.private_bytes])

PrivateCommand_try_from(b, splice_command_length) ==
    PrivateCommand_new(
        PrivateCommand_private_bytes(
            string(validate(Enter(b), splice_command_length * 8,
                            "PrivateCommand; validating splice_command_length"),
                   "identifier", 4, "Reading identifier for PrivateCommand"),
            splice_command_length))

\* SpliceInsert::try_from has no body in splice_insert.rs; the decoder below
\* follows the SpliceInsert section of the specification: the shape of
\* SpliceSchedule with SpliceTime for every time, and splice_immediate_flag
\* and four reserved bits after duration_flag
\* a splice time that is never read
SpliceInsert_splice_time_absent(b) == Set(b, "splice_time", None)

SpliceInsert_splice_time(b) ==
    IF ~Live(b) THEN b
    ELSE IF b.loc.splice_immediate_flag THEN Set(b, "splice_time", None)
    ELSE BindSome(SpliceTime_try_from(b), "splice_time")

InsertComponentMode_new(b) ==
    [component_tag |-> b.loc.component_tag, splice_time |-> b.loc.splice_time]

RECURSIVE InsertComponents(_, _, _)
RECURSIVE InsertComponents_push(_, _, _)
InsertComponents(b, count, components) ==
    IF ~Live(b) THEN b
    ELSE IF count = 0
    THEN Set(b, "splice_mode", <<"ComponentSpliceMode", components>>)
    ELSE InsertComponents_push(SpliceInsert_splice_time(byte(b, "component_tag")),
                               count, components)

InsertComponents_push(c, count, components) ==
    IF ~Live(c) THEN c
    ELSE InsertComponents(c, count - 1, Append(components, InsertComponentMode_new(c)))

SpliceInsert_program_mode(b) ==
    Set(b, "splice_mode", <<"ProgramSpliceMode", [splice_time |-> b.loc.splice_time]>>)

SpliceInsert_component_mode(b) ==
    IF ~Live(b) THEN b ELSE InsertComponents(b, b.loc.component_count, <<>>)

SpliceInsert_splice_mode(b) ==
    IF ~Live(b) THEN b
    ELSE IF b.loc.program_splice_flag
    THEN SpliceInsert_program_mode(SpliceInsert_splice_time(b))
    ELSE SpliceInsert_component_mode(byte(b, "component_count"))

SpliceInsert_ScheduledEvent_new(b) ==
    Return(b, [out_of_network_indicator |-> b.loc.out_of_network_indicator,
               is_immediate_splice |-> b.loc.splice_immediate_flag,
               splice_mode |-> b.loc.splice_mode,
               break_duration |-> b.loc.break_duration,
               unique_program_id |-> b.loc.unique_program_id,
               avail_num |-> b.loc.avail_num,
               avails_expected |-> b.loc.avails_expected])

SpliceInsert_ScheduledEvent_try_from(b) ==
    SpliceInsert_ScheduledEvent_new(
        byte(byte(u16(break_duration(
                          SpliceInsert_splice_mode(
                              consume(
                                  bool(bool(bool(bool(Enter(b),
                                                      "out_of_network_indicator"),
                                                 "program_splice_flag"),
                                            "duration_flag"),
                                       "splice_immediate_flag"),
                                  4))),
                      "unique_program_id", 16),
                  "avail_num"),
             "avails_expected"))

SpliceInsert_scheduled_event(b) ==
    IF ~Live(b) THEN b
    ELSE IF b.loc.is_cancelled THEN Set(b, "scheduled_event", None)
    ELSE BindSome(SpliceInsert_ScheduledEvent_try_from(b), "scheduled_event")

SpliceInsert_new(b) ==
    Return(b, [type |-> "SpliceInsert", event_id |-> b.loc.event_id,
               scheduled_event |-> b.loc.scheduled_event])

SpliceInsert_try_from(b) ==
    SpliceInsert_new(
        SpliceInsert_scheduled_event(
            consume(bool(u32(Enter(b), "event_id", 32), "is_cancelled"), 7)))

\* SpliceCommandType::try_from without the arm of BandwidthReservation
SpliceCommandType_try_from_no_reservation(value) ==
    CASE value = 0 -> [ok |-> TRUE, v |-> "SpliceNull"]
      [] value = 4 -> [ok |-> TRUE, v |-> "SpliceSchedule"]
      [] value = 5 -> [ok |-> TRUE, v |-> "SpliceInsert"]
      [] value = 6 -> [ok |-> TRUE, v |-> "TimeSignal"]
      [] value = 255 -> [ok |-> TRUE, v |-> "PrivateCommand"]
      [] OTHER -> [ok |-> FALSE, e |-> <<"UnrecognisedSpliceCommandType", value>>]

\* the match arms of SpliceCommandType::try_from
SpliceCommandType_try_from(value) ==
    CASE value = 0 -> [ok |-> TRUE, v |-> "SpliceNull"]
      [] value = 4 -> [ok |-> TRUE, v |-> "SpliceSchedule"]
      [] value = 5 -> [ok |-> TRUE, v |-> "SpliceInsert"]
      [] value = 6 -> [ok |-> TRUE, v |-> "TimeSignal"]
      [] value = 7 -> [ok |-> TRUE, v |-> "BandwidthReservation"]
      [] value = 255 -> [ok |-> TRUE, v |-> "PrivateCommand"]
      [] OTHER -> [ok |-> FALSE, e |-> <<"UnrecognisedSpliceCommandType", value>>]

\* value() with 0x0f for PrivateCommand
SpliceCommandType_value_private_low(t) ==
    CASE t = "SpliceNull" -> 0
      [] t = "SpliceSchedule" -> 4
      [] t = "SpliceInsert" -> 5
      [] t = "TimeSignal" -> 6
      [] t = "BandwidthReservation" -> 7
      [] t = "PrivateCommand" -> 15

SpliceCommandType_value(t) ==
    CASE t = "SpliceNull" -> 0
      [] t = "SpliceSchedule" -> 4
      [] t = "SpliceInsert" -> 5
      [] t = "TimeSignal" -> 6
      [] t = "BandwidthReservation" -> 7
      [] t = "PrivateCommand" -> 255

SpliceCommand_type(b) ==
    IF ~Live(b) THEN b
    ELSE Try(b, "splice_command_type",
             SpliceCommandType_try_from(b.loc.splice_command_type_raw_value))

SpliceCommand_match(b, type, splice_command_length) ==
    CASE type = "SpliceNull" -> Set(b, "command", [type |-> "SpliceNull"])
      [] type = "SpliceSchedule" -> Bind(SpliceSchedule_try_from(b), "command")
      [] type = "SpliceInsert" -> Bind(SpliceInsert_try_from(b), "command")
      [] type = "TimeSignal" -> Bind(TimeSignal_try_from(b), "command")
      [] type = "BandwidthReservation" ->
            Set(b, "command", [type |-> "BandwidthReservation"])
      [] type = "PrivateCommand" ->
            Bind(PrivateCommand_try_from(b, splice_command_length), "command")

SpliceCommand_dispatch(b, splice_command_length) ==
    IF ~Live(b) THEN b
    ELSE SpliceCommand_match(b, b.loc.splice_command_type, splice_command_length)

SpliceCommand_new(b) == Return(b, b.loc.command)

SpliceCommand_try_from(b, splice_command_length) ==
    SpliceCommand_new(
        SpliceCommand_dispatch(
            SpliceCommand_type(byte(Enter(b), "splice_command_type_raw_value")),
            splice_command_length))

\* command_type() of a parsed command
command_type(c) == c.type

(***************************************************************************)
(* SpliceInfoSection: the section frame.  SpliceInfoSection::from has no   *)
(* body in the source; the frame below follows the section algorithm of    *)
(* the specification, with the wire layout of the struct's documentation,  *)
(* and calls the decoders above for the command and the descriptor loop.   *)
(***************************************************************************)

SAPType_from(value) ==
    <<"Type1", "Type2", "Type3", "Unspecified">>[value + 1]

SAPType_value(sap_type) ==
    CASE sap_type = "Type1" -> 0
      [] sap_type = "Type2" -> 1
      [] sap_type = "Type3" -> 3
      [] sap_type = "Unspecified" -> 3

\* the check of a flag with the encryption gate left open
MustBeClear_but_encryption(b, name, error) ==
    IF ~Live(b) THEN b
    ELSE IF b.loc[name] /\ error # "EncryptedMessageNotSupported"
    THEN Fail(b, <<error>>)
    ELSE b

\* a flag that has to be clear: the error named, once the flag is read
MustBeClear(b, name, error) ==
    IF ~Live(b) THEN b ELSE IF b.loc[name] THEN Fail(b, <<error>>) ELSE b

SpliceInfoSection_section_length(b) ==
    IF ~Live(b) THEN b
    ELSE Set(validate(b, b.loc.section_length * 8, "SpliceInfoSection; section_length"),
             "bits_remaining_after_section",
             bits_remaining(b) - b.loc.section_length * 8)

\* step 1: table_id up to section_length
SpliceInfoSection_header(b) ==
    SpliceInfoSection_section_length(
        u16(u8(MustBeClear(
                   bool(MustBeClear(bool(byte(Enter(b), "table_id"),
                                         "section_syntax_indicator"),
                                    "section_syntax_indicator",
                                    "InvalidSectionSyntaxIndicator"),
                        "private_indicator"),
                   "private_indicator", "InvalidPrivateIndicator"),
               "sap_type", 2),
            "section_length", 12))

\* steps 2 to 4: protocol_version up to splice_command_length
SpliceInfoSection_fields(b) ==
    u32(u16(byte(u64(MustBeClear(
                         u8(bool(byte(b, "protocol_version"), "encrypted_packet_flag"),
                            "encryption_algorithm", 6),
                         "encrypted_packet_flag", "EncryptedMessageNotSupported"),
                     "pts_adjustment", 33),
                 "cw_index"),
            "tier", 12),
        "splice_command_length", 12)

SpliceInfoSection_before_command(b) ==
    Set(b, "bits_remaining_before_command", bits_remaining(b))

SpliceInfoSection_splice_command(b) ==
    IF ~Live(b) THEN b
    ELSE Bind(SpliceCommand_try_from(b, b.loc.splice_command_length), "splice_command")

\* the command length taken from the command's first byte, the type byte
SpliceInfoSection_command_length_with_type_byte(b) ==
    IF ~Live(b) THEN b
    ELSE IF b.loc.bits_remaining_before_command - bits_remaining(b)
            # b.loc.splice_command_length * 8
    THEN push_non_fatal_error(b,
            <<"UnexpectedSpliceCommandLength", b.loc.splice_command_length * 8,
              b.loc.bits_remaining_before_command - bits_remaining(b),
              command_type(b.loc.splice_command)>>)
    ELSE b

\* the bits the command body took: the type byte is not part of it
SpliceInfoSection_command_length(b) ==
    IF ~Live(b) THEN b
    ELSE IF b.loc.bits_remaining_before_command - 8 - bits_remaining(b)
            # b.loc.splice_command_length * 8
    THEN push_non_fatal_error(b,
            <<"UnexpectedSpliceCommandLength", b.loc.splice_command_length * 8,
              b.loc.bits_remaining_before_command - 8 - bits_remaining(b),
              command_type(b.loc.splice_command)>>)
    ELSE b

SpliceInfoSection_splice_descriptors(b) ==
    IF ~Live(b) THEN b
    ELSE Bind(try_splice_descriptors_from(b, b.loc.descriptor_loop_length),
              "splice_descriptors")

\* no stuffing skipped: the CRC taken right after the descriptor loop
SpliceInfoSection_stuffing_unskipped(b) == b

\* step 7: the stuffing that section_length leaves before the CRC
SpliceInfoSection_stuffing(b) ==
    IF ~Live(b) THEN b
    ELSE IF bits_remaining(b) - b.loc.bits_remaining_after_section - 32 > 0
    THEN consume(b, bits_remaining(b) - b.loc.bits_remaining_after_section - 32)
    ELSE b

SpliceInfoSection_new(b) ==
    Return(b, [table_id |-> b.loc.table_id, sap_type |-> SAPType_from(b.loc.sap_type),
               protocol_version |-> b.loc.protocol_version,
               pts_adjustment |-> b.loc.pts_adjustment, tier |-> b.loc.tier,
               splice_command |-> b.loc.splice_command,
               splice_descriptors |-> b.loc.splice_descriptors,
               crc_32 |-> b.loc.crc_32])

SpliceInfoSection_from(b) ==
    SpliceInfoSection_new(
        u32(SpliceInfoSection_stuffing(
                SpliceInfoSection_splice_descriptors(
                    u32(SpliceInfoSection_command_length(
                            SpliceInfoSection_splice_command(
                                SpliceInfoSection_before_command(
                                    SpliceInfoSection_fields(
                                        SpliceInfoSection_header(b))))),
                        "descriptor_loop_length", 16))),
            "crc_32", 32))

(***************************************************************************)
(* hex::decode_hex.  The hex module is not among the sources; decode_hex   *)
(* follows the specification of try_from_hex_string: an optional leading   *)
(* 0x or 0X, then an even number of hexadecimal digits of either case.  A  *)
(* hex string is a sequence of one-character strings.                      *)
(***************************************************************************)

HexLower == <<"0", "1", "2", "3", "4", "5", "6", "7", "8", "9",
              "a", "b", "c", "d", "e", "f">>
HexUpper == <<"0", "1", "2", "3", "4", "5", "6", "7", "8", "9",
              "A", "B", "C", "D", "E", "F">>

\* the value of a hexadecimal digit of either case without the letters
\* A to F of the upper case
hex_digit_lower_only(c) ==
    IF \E i \in 1..16 : HexLower[i] = c
    THEN (CHOOSE i \in 1..16 : HexLower[i] = c) - 1
    ELSE -1

\* the value of a hexadecimal digit of either case; -1 for another character
hex_digit(c) ==
    IF \E i \in 1..16 : HexLower[i] = c
    THEN (CHOOSE i \in 1..16 : HexLower[i] = c) - 1
    ELSE IF \E i \in 1..16 : HexUpper[i] = c
    THEN (CHOOSE i \in 1..16 : HexUpper[i] = c) - 1
    ELSE -1

hex_digits_decode(t) ==
    IF Len(t) % 2 = 1 \/ \E i \in 1..Len(t) : hex_digit(t[i]) < 0
    THEN [ok |-> FALSE, e |-> <<"DecodeHexError">>]
    ELSE [ok |-> TRUE,
          v |-> [i \in 1..(Len(t) \div 2) |->
                    16 * hex_digit(t[2 * i - 1]) + hex_digit(t[2 * i])]]

\* the digits are what follows a leading 0x or 0X, or the whole string
decode_hex(s) ==
    IF Len(s) >= 2 /\ s[1] = "0" /\ s[2] \in {"x", "X"}
    THEN hex_digits_decode(SubSeq(s, 3, Len(s)))
    ELSE hex_digits_decode(s)

(***************************************************************************)
(* Input buffers.  Each family lays fields out as the decoders read them;  *)
(* a declared length is skewed against the body it frames, a buffer is     *)
(* followed by up to MaxTrail more bytes, and every buffer is also cut     *)
(* short at every byte.                                                    *)
(***************************************************************************)

MaxTrail == 2     \* bytes that follow a structure in its buffer
MaxCount == 2     \* entries of a component or event loop
MaxSlack == 3     \* how far below the buffer's length a declared length goes

Fill(k) == [i \in 1..k |-> 49]
B16(n) == <<n \div 256, n % 256>>
Prefixes(S) == UNION {{SubSeq(s, 1, k) : k \in 0..Len(s)} : s \in S}

RECURSIVE Repeat(_, _)
Repeat(s, k) == IF k = 0 THEN <<>> ELSE s \o Repeat(s, k - 1)

CUEIBytes == <<67, 85, 69, 73>>
Pts == <<254, 0, 0, 0, 9>>             \* flag or reserved bits set, 33-bit value 9
Framed(tag, skew, body) == <<tag, Len(body) + skew>> \o body

LengthSkews == {-1, 0, 1}

AvailBody == CUEIBytes \o <<0, 0, 1, 53>>
TimeBody == CUEIBytes \o <<0, 0, 0, 0, 0, 9, 0, 0, 0, 7, 0, 37>>
DTMFBody(n) == CUEIBytes \o <<5, n * 32 + 31>> \o Fill(n)
AudioBodies ==
    {CUEIBytes \o <<n * 16 + 15>> \o Repeat(<<7, 101, 110, 103, m>>, n) :
        n \in 0..MaxCount, m \in {21, 242, 224, 0, 228, 240, 254}}

\* segmentation descriptor bodies: flags, component loop, duration, UPID,
\* type id, segment numbers and the optional sub-segment bytes
SegBody(ident, flags, count, upid, type, sub) ==
    ident \o <<0, 0, 0, 1, 127, flags>>
    \o (IF flags < 128 THEN <<count>> \o Repeat(<<3, 254, 0, 0, 0, 5>>, count) ELSE <<>>)
    \o (IF (flags \div 64) % 2 = 1 THEN <<0, 0, 0, 0, 9>> ELSE <<>>)
    \o upid \o <<type, 1, 2>> \o sub

SegBodies ==
    {CUEIBytes \o <<0, 0, 0, 1, 255>>}
    \cup {SegBody(CUEIBytes, 191, 0, <<0, 0>>, t, sub) :
            t \in {48, 52, 53, 54, 56, 58, 2}, sub \in {<<>>, <<1, 2>>}}
    \cup {SegBody(<<67, 85, 69, 74>>, 191, 0, <<0, 0>>, 52, <<1, 2>>)}
    \cup {SegBody(CUEIBytes, f, n, <<0, 0>>, 52, <<1, 2>>) :
            f \in {255, 203, 63}, n \in 0..MaxCount}
    \cup {SegBody(CUEIBytes, 191, 0, u, 48, <<>>) :
            u \in {<<8, 8>> \o Fill(8), <<9, 2, 65, 66>>, <<13, 3, 9, 1, 65>>,
                   <<13, 2, 9, 1, 65>>, <<9, 2, 255, 255>>, <<17, 0>>}}

SegSkews == {-2, -1, 0, 1, 2}

DescriptorBases ==
    {Framed(0, k, AvailBody) \o Fill(MaxTrail) : k \in LengthSkews}
    \cup {Framed(3, k, TimeBody) \o Fill(MaxTrail) : k \in LengthSkews}
    \cup {Framed(1, k, DTMFBody(n)) \o Fill(MaxTrail) :
            k \in LengthSkews, n \in 0..MaxCount}
    \cup {Framed(1, k, CUEIBytes \o <<5, 127>>) \o Fill(MaxTrail) : k \in {0, 1}}
    \cup {Framed(1, 0, CUEIBytes \o <<5, 95, 255, 255>>)}
    \cup {Framed(4, k, body) \o Fill(MaxTrail) : k \in LengthSkews, body \in AudioBodies}
    \cup {Framed(2, k, body) \o Fill(MaxTrail) : k \in SegSkews, body \in SegBodies}
    \cup {<<5, 0>>}

ExactDescriptors ==
    {Framed(0, 0, AvailBody), Framed(3, 0, TimeBody), Framed(1, 0, DTMFBody(MaxCount))}
    \cup {Framed(4, 0, body) : body \in AudioBodies}
    \cup {Framed(2, 0, body) : body \in SegBodies}

\* UPIDs: the lengths the source reads for each type that has one, and the
\* lengths around it
FixedUPIDLengths ==
    <<<<0, 0>>, <<2, 8>>, <<3, 12>>, <<4, 32>>, <<5, 8>>, <<6, 12>>, <<7, 12>>,
      <<8, 8>>, <<10, 12>>, <<16, 16>>>>

UPIDBases ==
    UNION {{<<p[1], l>> \o Fill(l + MaxTrail) :
                l \in {0, 1, p[2] - 1, p[2], p[2] + 1} \cap 0..255} :
            p \in {FixedUPIDLengths[i] : i \in DOMAIN FixedUPIDLengths}}
    \cup {<<t, l>> \o Fill(l + MaxTrail) :
            t \in {1, 9, 11, 12, 14, 15, 17}, l \in {0, 3, 4, 5}}
    \cup {<<9, 2, 255, 255>>}

\* UPIDs in hyphen-separated checked hex: payloads of varied digits, and
\* the published identifiers 0000-0000-3A8D-0000-Z-0000-0000-6 and
\* 10.5239/8BE5-E3F6-0000-0000-0000-B
HexPayload(k, m, c) == [i \in 1..k |-> (m * i + c) % 256]

HexPayloads(k) ==
    {HexPayload(k, m, c) : m \in {0, 1, 17, 35, 50, 85, 127, 170, 255}, c \in {0, 7}}
    \cup {<<f>> \o [i \in 1..(k - 1) |-> 0] : f \in {9, 63, 127, 254}}

CheckedHexUPIDs ==
    {<<5, 8>> \o h : h \in HexPayloads(8)}
    \cup {<<6, 12>> \o h : h \in HexPayloads(12)}
    \cup {<<10, 12>> \o h : h \in HexPayloads(12)}
    \cup {<<6, 12, 0, 0, 0, 0, 58, 141, 0, 0, 0, 0, 0, 0>>,
          <<10, 12, 20, 119, 139, 229, 227, 246, 0, 0, 0, 0, 0, 0>>}

ExactUPIDs ==
    {<<FixedUPIDLengths[i][1], FixedUPIDLengths[i][2]>> \o Fill(FixedUPIDLengths[i][2]) :
        i \in DOMAIN FixedUPIDLengths}
    \cup {<<t, 5>> \o Fill(5) : t \in {1, 9, 11, 12, 14, 15}}

\* MID: child UPIDs inside a declared payload length
MIDChildren ==
    {<<9, 1, 65>>, <<9, 1, 65, 0, 0>>, <<13, 2, 0, 0>>, <<0, 0, 9, 2, 65, 66>>,
     <<9, 1, 65, 1, 1, 66, 9, 1, 67>>}

MIDBases ==
    UNION {{<<13, l>> \o c \o Fill(MaxTrail) : l \in 0..(Len(c) + 1)} :
            c \in MIDChildren}

\* splice command bodies, by command type
CancelledEvent == <<0, 0, 0, 1, 255>>
ScheduleProgramEvent == <<0, 0, 0, 2, 127, 255, 0, 0, 0, 9>> \o Pts \o <<0, 1, 1, 2>>
ScheduleComponentEvent(n) ==
    <<0, 0, 0, 3, 127, 159, n>> \o Repeat(<<7, 0, 0, 0, 9>>, n) \o <<0, 1, 1, 2>>

SpliceScheduleBodies ==
    {<<0>>, <<1>> \o CancelledEvent, <<1>> \o ScheduleProgramEvent,
     <<2>> \o CancelledEvent \o ScheduleProgramEvent}
    \cup {<<1>> \o ScheduleComponentEvent(n) : n \in 0..MaxCount}

\* flags: out_of_network, program_splice, duration, splice_immediate, reserved
InsertEvent(flags, n, time) ==
    LET program == (flags \div 64) % 2 = 1
        duration == (flags \div 32) % 2 = 1
        immediate == (flags \div 16) % 2 = 1
        t == IF immediate THEN <<>> ELSE time
    IN <<0, 0, 0, 4, 127, flags>>
       \o (IF program THEN t ELSE <<n>> \o Repeat(<<7>> \o t, n))
       \o (IF duration THEN Pts ELSE <<>>) \o <<0, 1, 1, 2>>

SpliceInsertBodies ==
    {<<0, 0, 0, 4, 255>>}
    \cup {InsertEvent(f, n, t) :
            f \in {239, 223, 255, 143, 159}, n \in 0..MaxCount, t \in {Pts, <<127>>}}

PrivateBodies == {<<65, 66, 67, 68>> \o Fill(k) : k \in 0..MaxTrail}

CommandsOf(type) ==
    CASE type = "SpliceNull" -> {<<0>>}
      [] type = "SpliceSchedule" -> {<<4>> \o body : body \in SpliceScheduleBodies}
      [] type = "SpliceInsert" -> {<<5>> \o body : body \in SpliceInsertBodies}
      [] type = "TimeSignal" -> {<<6>> \o Pts, <<6, 127>>}
      [] type = "BandwidthReservation" -> {<<7>>}
      [] type = "PrivateCommand" -> {<<255>> \o body : body \in PrivateBodies}

CommandTypes ==
    {"SpliceNull", "SpliceSchedule", "SpliceInsert", "TimeSignal",
     "BandwidthReservation", "PrivateCommand"}

WellFormedCommands == UNION {CommandsOf(t) : t \in CommandTypes}

\* every value of the splice_command_type byte, with bytes after it
CommandTypeBytes == {<<t>> \o Fill(MaxTrail) : t \in 0..255}

CommandBases ==
    {c \o Fill(MaxTrail) : c \in WellFormedCommands}
    \cup {<<1>>, <<255, 255, 66, 67, 68>>}
    \cup CommandTypeBytes

\* a section: the header fields, the command, the descriptor loop, stuffing
\* and the CRC; section_length counts what follows it
Section(nibble, encrypted, splice_command_length, command, loop_skew, descriptors,
        stuffing) ==
    LET rest == <<0, encrypted, 0, 0, 0, 9, 255, 255,
                  240 + (splice_command_length \div 256), splice_command_length % 256>>
                \o command \o B16(Len(descriptors) + loop_skew) \o descriptors
                \o stuffing \o <<1, 2, 3, 4>>
    IN <<252, nibble * 16 + (Len(rest) \div 256), Len(rest) % 256>> \o rest

SentinelSection(c) == Section(3, 0, 4095, c, 0, <<>>, <<>>)
SentinelSections == {SentinelSection(c) : c \in WellFormedCommands}
ExactSections == {Section(3, 0, Len(c) - 1, c, 0, <<>>, <<>>) : c \in WellFormedCommands}

\* descriptor loops whose descriptors each declare the length of their body
ExactDescriptorLists ==
    {Framed(0, 0, AvailBody),
     Framed(0, 0, AvailBody) \o Framed(1, 0, DTMFBody(1)),
     Framed(0, 0, AvailBody) \o Framed(3, 0, TimeBody),
     Framed(3, 0, TimeBody) \o Framed(4, 0, CUEIBytes \o <<31, 7, 101, 110, 103, 21>>),
     Framed(2, 0, SegBody(CUEIBytes, 191, 0, <<0, 0>>, 52, <<1, 2>>)),
     Framed(2, 0, SegBody(CUEIBytes, 63, 1, <<13, 4, 9, 2, 65, 66>>, 48, <<>>))}

DescriptorLists ==
    ExactDescriptorLists
    \cup {Framed(0, 1, AvailBody) \o <<0>> \o Framed(0, 0, AvailBody)}

DescriptorSections ==
    {Section(3, 0, 5, <<6>> \o Pts, k, ds, st) :
        k \in {-1, 0}, ds \in DescriptorLists, st \in {<<>>, <<0>>}}

HeaderFaultSections ==
    {Section(p[1], p[2], 0, <<0>>, 0, <<>>, <<>>) :
        p \in {<<11, 0>>, <<7, 0>>, <<3, 128>>, <<0, 0>>}}

\* sections in which every declared length is the length of what it frames
ExactLengthSections ==
    ExactSections
    \cup {Section(3, 0, 5, <<6>> \o Pts, 0, ds, <<>>) : ds \in ExactDescriptorLists}

\* sections followed in their buffer by bytes that are not part of them
TrailedSections == {sec \o Fill(MaxTrail) : sec \in ExactLengthSections}

\* sections whose section_length is the length of what follows it
DeclaredLengthSections ==
    SentinelSections \cup ExactLengthSections \cup DescriptorSections
    \cup TrailedSections

\* sections with the encrypted_packet flag set: each value of the byte that
\* holds the flag and the encryption_algorithm, before a SpliceNull section
\* body and before bytes that are no section body
EncryptedFlagBytes == {128, 130, 192, 254, 255}

EncryptedSections ==
    {Section(3, e, 0, <<0>>, 0, <<>>, <<>>) : e \in EncryptedFlagBytes}
    \cup {<<252, 48, k, 0, e>> \o Fill(k - 2) :
            k \in {2, 2 + MaxTrail}, e \in EncryptedFlagBytes}

LoopBases == {ds \o Fill(MaxTrail) : ds \in DescriptorLists}

\* the arguments of the conversions from raw values: one byte, or bsmod and
\* acmod
RawBytes == {<<v>> : v \in 0..255}

BitStreamModeArguments ==
    {<<bsmod>> : bsmod \in 0..8} \cup {<<bsmod, acmod>> : bsmod \in 0..8, acmod \in 0..9}

\* TimeSignal commands whose splice_time has the top bit of pts_time set,
\* and the flag unset with reserved bits set
SpliceTimes == {<<6, 255, 128, 1, 2, 3>>, <<6, 127>>}

Bases ==
    SpliceTimes \cup RawBytes \cup BitStreamModeArguments \cup DescriptorBases \cup LoopBases \cup UPIDBases \cup CheckedHexUPIDs \cup MIDBases
    \cup CommandBases \cup DeclaredLengthSections \cup HeaderFaultSections \cup EncryptedSections

TruncatedBases ==
    ExactDescriptors \cup ExactUPIDs \cup WellFormedCommands
    \cup {Section(3, 0, 5, <<6>> \o Pts, 0, Framed(0, 0, AvailBody), <<>>)}

Inputs == Bases \cup Prefixes(TruncatedBases)

\* hex strings: the spellings of a buffer in lower, upper and mixed case,
\* bare or after 0x or 0X, and strings that are no spelling of any buffer
Spelling(d, first, second) ==
    [i \in 1..(2 * Len(d)) |->
        IF i % 2 = 1 THEN first[(d[(i + 1) \div 2] \div 16) + 1]
        ELSE second[(d[i \div 2] % 16) + 1]]

HexPrefixes == {<<>>, <<"0", "x">>, <<"0", "X">>}

HexSpellings(d) ==
    {p \o Spelling(d, t[1], t[2]) :
        p \in HexPrefixes,
        t \in {<<HexLower, HexLower>>, <<HexUpper, HexUpper>>, <<HexUpper, HexLower>>}}

MalformedHex(d) ==
    {Spelling(d, HexLower, HexLower) \o <<"0">>,
     <<"0", "x">> \o Spelling(d, HexUpper, HexUpper) \o <<"g", "0">>,
     <<"x", "0">> \o Spelling(d, HexUpper, HexUpper)}

HexStrings(d) == HexSpellings(d) \cup MalformedHex(d)

\* the declared lengths a caller passes beside a buffer
DeclaredLengths(d) == {0} \cup {l \in 0..(Len(d) + 1) : l >= Len(d) - MaxSlack}

Builds == {"debug", "release"}

(***************************************************************************)
(* The state machine: a buffer is chosen, one decoder is run on it from    *)
(* its first bit, and the outcome is kept.                                 *)
(***************************************************************************)

\* what the caller sees: Ok with the value and the reader, Err, or a panic
Outcome(b) ==
    [st |-> IF b.fail = "none" THEN "Ok" ELSE b.fail,
     err |-> b.err, pos |-> b.pos, nfe |-> b.nfe, short |-> b.short,
     val |-> IF b.fail = "none" THEN b.ret ELSE <<>>]

Init ==
    /\ data \in Inputs
    /\ hex = <<>>
    /\ phase = "ready"
    /\ op = "none"
    /\ arg = 0
    /\ result = <<>>
    /\ bits = <<>>
    /\ decoded = <<>>

Run(name, a, b) ==
    /\ phase = "ready"
    /\ phase' = "done"
    /\ op' = name
    /\ arg' = a
    /\ result' = Outcome(b)
    /\ UNCHANGED <<data, hex, bits, decoded>>

SectionFrom ==
    \E bld \in Builds :
        Run("SpliceInfoSection::from", 0, SpliceInfoSection_from(NewBits(bld)))

\* from_hex_string: the string is decoded and the decoded bytes are the
\* buffer that from is given (where they are the bytes already held, the
\* parse is evaluated on the buffer as it stands)
FromHexString ==
    \E bld \in Builds, hex_string \in HexStrings(data) :
        /\ phase = "ready"
        /\ phase' = "done"
        /\ op' = "SpliceInfoSection::from_hex_string"
        /\ arg' = 0
        /\ hex' = hex_string
        /\ UNCHANGED <<bits, decoded>>
        /\ IF ~decode_hex(hex_string).ok
           THEN /\ data' = data
                /\ result' = Outcome(Fail(NewBits(bld), decode_hex(hex_string).e))
           ELSE /\ data' = decode_hex(hex_string).v
                /\ IF decode_hex(hex_string).v = data
                   THEN result' = Outcome(SpliceInfoSection_from(NewBits(bld)))
                   ELSE result' = Outcome(SpliceInfoSection_from(NewBits(bld)))'

CommandTryFrom ==
    \E bld \in Builds, l \in DeclaredLengths(data) \cup {4095} :
        Run("SpliceCommand::try_from", l, SpliceCommand_try_from(NewBits(bld), l))

DescriptorsTryFrom ==
    \E bld \in Builds, l \in DeclaredLengths(data) :
        Run("try_splice_descriptors_from", l,
            try_splice_descriptors_from(NewBits(bld), l))

DescriptorTryFrom ==
    \E bld \in Builds :
        Run("SpliceDescriptor::try_from", 0, SpliceDescriptor_try_from(NewBits(bld)))

UPIDTryFrom ==
    \E bld \in Builds :
        Run("SegmentationUPID::try_from", 0, SegmentationUPID_try_from(NewBits(bld)))

\* the Result of a conversion as the outcome of a run
Returned(b, r) == IF r.ok THEN [b EXCEPT !.ret = r.v] ELSE Fail(b, r.e)

\* a SpliceTime that starts skip bits into a buffer of up to six bytes
SpliceTimeTryFrom ==
    \E bld \in Builds, skip \in 0..8 :
        /\ Len(data) <= 6
        /\ skip <= 8 * Len(data)
        /\ Run("SpliceTime::try_from", skip,
               SpliceTime_try_from(consume(NewBits(bld), skip)))

\* value() of the variant that a buffer of one byte below 4 decodes to
SAPTypeValue ==
    \E bld \in Builds :
        /\ Len(data) = 1
        /\ data[1] < 4
        /\ Run("SAPType::value", data[1],
               Returned(NewBits(bld),
                        [ok |-> TRUE, v |-> SAPType_value(SAPType_from(data[1]))]))

SegmentationTypeIDTryFrom ==
    \E bld \in Builds :
        /\ Len(data) = 1
        /\ Run("SegmentationTypeID::try_from", data[1],
               Returned(NewBits(bld), SegmentationTypeID_try_from(data[1])))

\* acmod is None for a buffer of one byte, Some(second byte) for one of two
BitStreamModeTryFrom ==
    \E bld \in Builds :
        /\ Len(data) \in {1, 2}
        /\ Run("BitStreamMode::try_from", data[1],
               Returned(NewBits(bld),
                        BitStreamMode_try_from(
                            data[1], IF Len(data) = 1 THEN None ELSE Some(data[2]))))

Next ==
    \/ SectionFrom
    \/ FromHexString
    \/ CommandTryFrom
    \/ DescriptorsTryFrom
    \/ DescriptorTryFrom
    \/ UPIDTryFrom
    \/ SpliceTimeTryFrom
    \/ SAPTypeValue
    \/ SegmentationTypeIDTryFrom
    \/ BitStreamModeTryFrom

Spec == Init /\ [][Next]_vars

(***************************************************************************)
(* The reader on its own: a Bits is made over a buffer and its operations  *)
(* are called one after another, in any order and with any arguments.  A   *)
(* panic ends the sequence; an Err is returned to the caller, who may go   *)
(* on with the same reader.                                                *)
(***************************************************************************)

MaxBytes == 3
MaxErrors == 1

BitsBuffers ==
    UNION {[1..k -> {0, 165}] : k \in 0..MaxBytes} \cup {<<128, 1, 2, 3, 4, 5>>}

BitsInit ==
    /\ data \in BitsBuffers
    /\ hex = <<>>
    /\ phase = "bits"
    /\ op = "Bits::new"
    /\ arg = 0
    /\ result = <<>>
    /\ bits \in {NewBits(bld) : bld \in Builds}
    /\ decoded = <<>>

\* the reader after a call: the callee's locals are gone, and an Err was
\* the call's result, not a state of the reader
Reader(b) ==
    [b EXCEPT !.loc = <<>>, !.err = <<>>, !.fail = IF @ = "Err" THEN "none" ELSE @]

\* what the call returned
Value(b) == IF Live(b) /\ "v" \in DOMAIN b.loc THEN b.loc.v ELSE <<>>

Call(name, n, b) ==
    /\ phase = "bits"
    /\ Live(bits)
    /\ op' = name
    /\ arg' = n
    /\ result' = [Outcome(b) EXCEPT !.val = Value(b)]
    /\ bits' = Reader(b)
    /\ UNCHANGED <<data, hex, phase, decoded>>

BitsU8 == \E n \in {1, 3, 8} : Call("Bits::u8", n, u8(bits, "v", n))
BitsU16 == \E n \in {9, 16} : Call("Bits::u16", n, u16(bits, "v", n))
BitsU32 == \E n \in {24, 32} : Call("Bits::u32", n, u32(bits, "v", n))
BitsU64 == \E n \in {33, 40} : Call("Bits::u64", n, u64(bits, "v", n))
BitsBool == Call("Bits::bool", 1, bool(bits, "v"))
BitsByte == Call("Bits::byte", 8, byte(bits, "v"))

\* a release build's consume past the end is followed by no other consume
BitsConsume ==
    \E n \in {1, 7, 8} :
        /\ bits.pos <= 8 * Len(data)
        /\ Call("Bits::consume", n, consume(bits, n))

BitsString ==
    \E n \in 0..2 : Call("Bits::string", 8 * n, string(bits, "v", n, "description"))

BitsBytes == \E n \in 0..2 : Call("Bits::bytes", 8 * n, bytes(bits, "v", n))

BitsValidate ==
    \E expected \in {0, 1, 8, 9, 16, 24, 48} :
        Call("Bits::validate", expected, validate(bits, expected, "description"))

BitsPushNonFatalError ==
    /\ Len(bits.nfe) < MaxErrors
    /\ Call("Bits::push_non_fatal_error", 0,
            push_non_fatal_error(bits, <<"UnexpectedSpliceCommandLength">>))

BitsNext ==
    \/ BitsU8
    \/ BitsU16
    \/ BitsU32
    \/ BitsU64
    \/ BitsBool
    \/ BitsByte
    \/ BitsConsume
    \/ BitsString
    \/ BitsBytes
    \/ BitsValidate
    \/ BitsPushNonFatalError

BitsSpec == BitsInit /\ [][BitsNext]_vars

(***************************************************************************)
(* The two loops over a declared length, one iteration a step: the         *)
(* descriptor loop of try_splice_descriptors_from and the child loop of a  *)
(* MID UPID.  The first state is the entry to the loop, after the validate *)
(* of the declared length: arg holds the loop's end (expected_end,         *)
(* bits_remaining_after_upid), bits the reader, result the elements pushed *)
(* so far and, once the decoder has returned, its outcome.  decoded holds, *)
(* for every byte of the buffer, the outcome of the element decoder        *)
(* (SpliceDescriptor::try_from, SegmentationUPID::try_from) called with    *)
(* the reader at that byte; an iteration looks its call up there.  The     *)
(* decoder is one thread that is never suspended, hence the weak fairness  *)
(* of its steps.                                                           *)
(***************************************************************************)

LoopBuffers ==
    LoopBases \cup MIDBases
    \cup {<<0, 0>>, <<0, 0, 0, 0>>, <<5, 0>>, <<13, 6, 13, 4, 13, 0, 13, 0>>,
          <<13, 4, 0, 0, 0, 0>>, <<13, 4, 13, 0, 13, 0, 49>>}

\* the reader b at byte k of the buffer, with no error recorded yet
AtByte(b, k) == [b EXCEPT !.pos = 8 * k, !.nfe = <<>>, !.short = FALSE]

DescriptorDecoded(b) ==
    [k \in 0..Len(data) |-> Outcome(SpliceDescriptor_try_from(AtByte(b, k)))]

UPIDDecoded(b) ==
    [k \in 0..Len(data) |-> Outcome(SegmentationUPID_try_from(AtByte(b, k)))]

LoopInit ==
    /\ data \in LoopBuffers
    /\ hex = <<>>
    /\ phase = "loop"
    /\ op = "none"
    /\ arg = 0
    /\ result = <<>>
    /\ bits \in {NewBits(bld) : bld \in Builds}
    /\ decoded = <<>>

\* the decoder is called and reaches its loop with the reader b, after the
\* validate of the declared length, or returns that validate's error
LoopEntered(name, b, declared_bits, loop, elements) ==
    /\ phase = "loop"
    /\ op' = name
    /\ bits' = b
    /\ decoded' = elements
    /\ IF Live(b)
       THEN /\ phase' = loop
            /\ arg' = bits_remaining(b) - declared_bits
            /\ result' = <<>>
       ELSE /\ phase' = "done"
            /\ arg' = 0
            /\ result' = Outcome(b)
    /\ UNCHANGED <<data, hex>>

DescriptorLoopEntry(b, descriptor_loop_length) ==
    validate(Enter(b), descriptor_loop_length * 8, "SpliceDescriptor; reading loop")

DescriptorLoopEnter ==
    \E descriptor_loop_length \in DeclaredLengths(data) :
        LoopEntered("try_splice_descriptors_from",
                    DescriptorLoopEntry(bits, descriptor_loop_length),
                    descriptor_loop_length * 8, "descriptors",
                    DescriptorDecoded(DescriptorLoopEntry(bits, descriptor_loop_length)))

MidLoopEntry(b) ==
    SegmentationUPID_validate(
        byte(SegmentationUPID_upid_type(byte(Enter(b), "upid_type_raw_value")),
             "upid_length"))

MidLoopEnter ==
    /\ Len(data) >= 1
    /\ data[1] = 13
    /\ LoopEntered("SegmentationUPID::try_from", MidLoopEntry(bits),
                   MidLoopEntry(bits).loc.upid_length * 8, "mid",
                   UPIDDecoded(MidLoopEntry(bits)))

\* the element decoder called with the reader where it is
Element == decoded[bits.pos \div 8]

\* the reader after that call
AfterElement ==
    [bits EXCEPT !.pos = Element.pos, !.nfe = @ \o Element.nfe,
                 !.short = @ \/ Element.short, !.ret = Element.val,
                 !.fail = IF Element.st = "Ok" THEN "none" ELSE Element.st,
                 !.err = Element.err]

\* an iteration that skips an element in error where its decoder stopped
LoopIterated_skipping_errors(loop) ==
    /\ phase = loop
    /\ bits_remaining(bits) > arg
    /\ bits.pos % 8 = 0
    /\ bits' = [AfterElement EXCEPT !.fail = "none", !.err = <<>>]
    /\ phase' = loop
    /\ result' = IF Element.st = "Ok" THEN Append(result, Element.val) ELSE result
    /\ UNCHANGED <<data, hex, op, arg, decoded>>

\* one iteration: the element is pushed, or its error returned through ?
LoopIterated(loop) ==
    /\ phase = loop
    /\ bits_remaining(bits) > arg
    /\ bits.pos % 8 = 0
    /\ bits' = AfterElement
    /\ IF Element.st = "Ok"
       THEN /\ phase' = loop
            /\ result' = Append(result, Element.val)
       ELSE /\ phase' = "done"
            /\ result' = Outcome(AfterElement)
    /\ UNCHANGED <<data, hex, op, arg, decoded>>

\* the loop condition is false: b is the reader after the return
LoopLeft(loop, b) ==
    /\ phase = loop
    /\ ~(bits_remaining(bits) > arg)
    /\ phase' = "done"
    /\ bits' = b
    /\ result' = Outcome(b)
    /\ UNCHANGED <<data, hex, op, arg, decoded>>

DescriptorLoopIterate == LoopIterated("descriptors")

DescriptorLoopExit == LoopLeft("descriptors", Return(bits, result))

MidLoopIterate == LoopIterated("mid")

MidLoopExit ==
    LoopLeft("mid",
             SegmentationUPID_of(Set(bits, "mid", result), bits.loc.upid_type,
                                 bits.loc.upid_length, "mid"))

\* the steps of a loop that was entered
LoopStep ==
    \/ DescriptorLoopIterate
    \/ DescriptorLoopExit
    \/ MidLoopIterate
    \/ MidLoopExit

LoopNext ==
    \/ DescriptorLoopEnter
    \/ MidLoopEnter
    \/ DescriptorLoopIterate
    \/ DescriptorLoopExit
    \/ MidLoopIterate
    \/ MidLoopExit

LoopSpec == LoopInit /\ [][LoopNext]_vars /\ WF_vars(LoopStep)

(***************************************************************************)
(* The claims of the specification, as properties of the outcome kept      *)
(* once a decoder has run.                                                 *)
(***************************************************************************)

Ran(name) == phase = "done" /\ op = name
Ok == result.st = "Ok"
Failed(kind) == result.st = "Err" /\ result.err[1] = kind
Recorded(kind) == \E i \in DOMAIN result.nfe : result.nfe[i][1] = kind

\* C1: when the buffer ends before a field a decoder reads is fully there,
\* the decoder returns Err(UnexpectedEndOfData); it neither panics nor
\* returns Ok.
C1_TruncatedInputIsEndOfData ==
    (phase = "done" /\ result.short) => Failed("UnexpectedEndOfData")

\* a SpliceSchedule that announces an event the buffer does not hold
C1_PanicOnTruncatedSchedule ==
    /\ Ran("SpliceCommand::try_from")
    /\ data = <<4, 1>>
    /\ result.st = "Panic"

\* C2: bytes(n) and string(n) never hand back a zero-filled buffer for an
\* under-read: a DTMFDescriptor that is Ok holds dtmf_chars that are bytes of
\* the buffer, never NULs standing for bytes that are not there.
C2_DTMFCharsComeFromTheBuffer ==
    (Ran("SpliceDescriptor::try_from") /\ Ok /\ result.val.tag = "DTMFDescriptor")
    => /\ 8 + Len(result.val.dtmf_chars) <= Len(data)
       /\ result.val.dtmf_chars = SubSeq(data, 9, 8 + Len(result.val.dtmf_chars))

\* dtmf_count is 3 and two bytes are left
C2_ZeroFilledDTMFChars ==
    /\ Ran("SpliceDescriptor::try_from")
    /\ data = <<1, 6, 67, 85, 69, 73, 5, 127, 49, 49>>
    /\ Ok
    /\ result.val.dtmf_chars = <<0, 0, 0>>

\* C3: a well-formed command of any of the six types, decoded with the
\* declared splice_command_length 0xFFF, is Ok: the difference between the
\* declared length and the bits the command takes is never fatal.
C3_SentinelCommandLengthIsNotFatal ==
    (Ran("SpliceCommand::try_from") /\ arg = 4095 /\ data \in WellFormedCommands)
    => Ok

\* a PrivateCommand of four identifier bytes under the declared length 0xFFF
C3_PrivateCommandFailsOnSentinel ==
    /\ Ran("SpliceCommand::try_from")
    /\ arg = 4095
    /\ data = <<255, 65, 66, 67, 68>>
    /\ Failed("UnexpectedEndOfData")

\* C4: a descriptor decoder that returns Ok has recorded exactly one
\* UnexpectedSpliceDescriptorLength, with the declared bits, the bits read
\* since the length byte and the tag, when the two differ, and nothing when
\* they agree; the difference never shows as a fatal error.
C4_DescriptorLengthMismatchIsRecorded ==
    Ran("SpliceDescriptor::try_from") =>
        /\ Ok =>
            result.nfe =
                IF result.pos - 16 # data[2] * 8
                THEN <<<<"UnexpectedSpliceDescriptorLength", data[2] * 8,
                         result.pos - 16, result.val.tag>>>>
                ELSE <<>>
        /\ ~Failed("UnexpectedSpliceDescriptorLength")

\* a segmentation descriptor whose body is not as long as declared
C4_MismatchedSegmentationDescriptor ==
    /\ Ran("SpliceDescriptor::try_from")
    /\ Ok
    /\ result.val.tag = "SegmentationDescriptor"
    /\ result.pos - 16 # data[2] * 8
    /\ Len(result.nfe) = 1

\* C5: when the descriptors of the loop take a number of bits other than
\* descriptor_loop_length * 8, the loop still returns Ok and has recorded
\* UnexpectedDescriptorLoopLength.
C5_LoopLengthMismatchIsRecorded ==
    (Ran("try_splice_descriptors_from") /\ Ok /\ result.pos # arg * 8)
    => Recorded("UnexpectedDescriptorLoopLength")

\* a ten-byte descriptor in a loop declared as nine bytes
C5_LoopOverrunUnrecorded ==
    /\ Ran("try_splice_descriptors_from")
    /\ arg = 9
    /\ Ok
    /\ result.pos = 80
    /\ result.nfe = <<>>

\* the lengths the claim gives for the UPID types that have one
C6_Length ==
    [NotUsed |-> 0, ISCI |-> 8, AdID |-> 12, UMID |-> 32, DeprecatedISAN |-> 8,
     ISAN |-> 12, TID |-> 12, TI |-> 8, EIDR |-> 12, UUID |-> 16]

C6_Type == SegmentationUPIDType_try_from(data[1])

\* C6: a UPID of a type with a fixed length, declared with another length
\* of which that many bytes remain, fails with
\* UnexpectedSegmentationUPIDLength{declared, expected, type}; declared with
\* the fixed length it passes the length check.
C6_FixedLengthUPIDs ==
    (/\ Ran("SegmentationUPID::try_from")
     /\ Len(data) >= 2
     /\ C6_Type.ok
     /\ C6_Type.v \in DOMAIN C6_Length
     /\ Len(data) - 2 >= data[2])
    => IF data[2] # C6_Length[C6_Type.v]
       THEN /\ result.st = "Err"
            /\ result.err = <<"UnexpectedSegmentationUPIDLength", data[2],
                              C6_Length[C6_Type.v], C6_Type.v>>
       ELSE ~Failed("UnexpectedSegmentationUPIDLength")

\* an EIDR declared with 11 bytes
C6_ShortEIDR ==
    /\ Ran("SegmentationUPID::try_from")
    /\ Len(data) = 15
    /\ data[1] = 10
    /\ data[2] = 11
    /\ result.err = <<"UnexpectedSegmentationUPIDLength", 11, 12, "EIDR">>

\* the scheduled event of the segmentation descriptor that was returned
C7_Event == result.val.scheduled_event[1]

C7_HasEvent ==
    /\ Ran("SpliceDescriptor::try_from")
    /\ Ok
    /\ result.val.tag = "SegmentationDescriptor"
    /\ result.val.scheduled_event # None

\* where segments_expected ends, by the layout of the descriptor: the
\* twelve bytes up to the flags, the component loop, the duration, the UPID
\* with its two header bytes, and three bytes
C7_UPIDOffset ==
    12 + (IF data[12] < 128 THEN 1 + 6 * data[13] ELSE 0)
       + (IF (data[12] \div 64) % 2 = 1 THEN 5 ELSE 0)

C7_BitsBeforeSubSegment == 8 * (C7_UPIDOffset + 2 + data[C7_UPIDOffset + 2] + 3)

\* the bits left right after segments_expected, from where the reader stopped
C7_BitsLeft ==
    Len(data) * 8 - result.pos + (IF C7_Event.sub_segment # None THEN 16 ELSE 0)

C7_BitsLeftAfterDescriptor == Len(data) * 8 - 16 - data[2] * 8

\* C7: sub_segment is Some exactly when the type id is 0x34, 0x36, 0x38 or
\* 0x3A, 16 bits remain after segments_expected and taking them leaves no
\* fewer bits than are due after the descriptor; otherwise it is None and no
\* bit is read for it; the read never crosses the declared descriptor end.
C7_SubSegmentOnlyInsideDescriptor ==
    C7_HasEvent =>
        /\ (C7_Event.sub_segment # None) <=>
              /\ SegmentationTypeID_value(C7_Event.segmentation_type_id)
                    \in {52, 54, 56, 58}
              /\ C7_BitsLeft >= 16
              /\ C7_BitsLeft - 16 >= C7_BitsLeftAfterDescriptor
        /\ C7_Event.segmentation_upid.type # "MID" =>
              result.pos = C7_BitsBeforeSubSegment
                           + (IF C7_Event.sub_segment # None THEN 16 ELSE 0)
        /\ C7_Event.sub_segment # None => result.pos <= 16 + data[2] * 8

\* a placement opportunity start with its sub-segment inside the descriptor
C7_SubSegmentRead ==
    /\ C7_HasEvent
    /\ C7_Event.segmentation_type_id = "ProviderPlacementOpportunityStart"
    /\ C7_Event.sub_segment = Some([sub_segment_num |-> 1, sub_segments_expected |-> 2])

RECURSIVE C8_ChildBytes(_)
C8_ChildBytes(mid) ==
    IF mid = <<>> THEN 0 ELSE Head(mid).upid_length + 2 + C8_ChildBytes(Tail(mid))

\* C8: the children of a MID that was returned fill its declared length:
\* the sum of (child upid_length + 2) is the MID's upid_length.
C8_MIDChildrenFillDeclaredLength ==
    (Ran("SegmentationUPID::try_from") /\ Ok /\ result.val.type = "MID")
    => C8_ChildBytes(result.val.v) = result.val.upid_length

\* a MID declared with two bytes whose child takes three
C8_ChildPastMIDEnd ==
    /\ Ran("SegmentationUPID::try_from")
    /\ Ok
    /\ data = <<13, 2, 9, 1, 65, 49, 49>>
    /\ result.val.type = "MID"
    /\ result.pos = 40

\* the descriptors a decoder returned
C9_Returned ==
    IF ~(phase = "done" /\ Ok) THEN {}
    ELSE IF op = "SpliceDescriptor::try_from" THEN {result.val}
    ELSE IF op = "try_splice_descriptors_from"
    THEN {result.val[i] : i \in DOMAIN result.val}
    ELSE IF op = "SpliceInfoSection::from"
    THEN {result.val.splice_descriptors[i] : i \in DOMAIN result.val.splice_descriptors}
    ELSE {}

\* the first 32 bits of a descriptor body, as the reader holds them
C9_Identifier == <<data[3], data[4] * 65536 + data[5] * 256 + data[6]>>

\* C9: every SegmentationDescriptor returned has the identifier 0x43554549;
\* a segmentation descriptor whose body starts with another value v fails
\* with InvalidSegmentationDescriptorIdentifier(v) with the reader right
\* after the identifier, event_id unread.
C9_SegmentationIdentifierIsCUEI ==
    /\ \A d \in C9_Returned : d.tag = "SegmentationDescriptor" => d.identifier = CUEI
    /\ (/\ Ran("SpliceDescriptor::try_from")
        /\ Len(data) >= 6
        /\ data[1] = 2
        /\ Len(data) - 2 >= data[2]
        /\ C9_Identifier # CUEI)
       => /\ result.st = "Err"
          /\ result.err = <<"InvalidSegmentationDescriptorIdentifier", C9_Identifier>>
          /\ result.pos = 48

\* a segmentation descriptor whose identifier reads CUEJ
C9_WrongIdentifierRejected ==
    /\ Ran("SpliceDescriptor::try_from")
    /\ Failed("InvalidSegmentationDescriptorIdentifier")
    /\ result.err[2] = <<67, 5588298>>

\* the SpliceInsert commands a decoder returned
C10_Inserts ==
    IF ~(phase = "done" /\ Ok) THEN {}
    ELSE IF op = "SpliceCommand::try_from" /\ result.val.type = "SpliceInsert"
    THEN {result.val}
    ELSE IF op = "SpliceInfoSection::from"
            /\ result.val.splice_command.type = "SpliceInsert"
    THEN {result.val.splice_command}
    ELSE {}

\* the splice times of a splice_mode, each None or Some
C10_Times(splice_mode) ==
    IF splice_mode[1] = "ProgramSpliceMode" THEN {splice_mode[2].splice_time}
    ELSE {splice_mode[2][i].splice_time : i \in DOMAIN splice_mode[2]}

\* C10: in a SpliceInsert returned with a scheduled event, an immediate
\* splice has no splice time in its splice_mode, and one that is not
\* immediate has the program splice time, or every component's, present.
C10_ImmediateSpliceHasNoTime ==
    \A c \in C10_Inserts :
        c.scheduled_event # None =>
            \A t \in C10_Times(c.scheduled_event[1].splice_mode) :
                (t = None) <=> c.scheduled_event[1].is_immediate_splice

\* a splice that is not immediate, with the times of two components
C10_ComponentTimesPresent ==
    /\ Ran("SpliceCommand::try_from")
    /\ \E c \in C10_Inserts :
          /\ c.scheduled_event # None
          /\ ~c.scheduled_event[1].is_immediate_splice
          /\ c.scheduled_event[1].splice_mode[1] = "ComponentSpliceMode"
          /\ Len(c.scheduled_event[1].splice_mode[2]) = 2
          /\ \A t \in C10_Times(c.scheduled_event[1].splice_mode) : t # None

\* the command type each accepted splice_command_type byte stands for
C11_Types ==
    (0 :> "SpliceNull") @@ (4 :> "SpliceSchedule") @@ (5 :> "SpliceInsert")
    @@ (6 :> "TimeSignal") @@ (7 :> "BandwidthReservation")
    @@ (255 :> "PrivateCommand")

\* C11: SpliceCommand::try_from turns the type byte 0x00, 0x04, 0x05, 0x06,
\* 0x07, 0xFF into SpliceNull, SpliceSchedule, SpliceInsert, TimeSignal,
\* BandwidthReservation, PrivateCommand; any other byte t is
\* Err(UnrecognisedSpliceCommandType(t)); SpliceNull and
\* BandwidthReservation are Ok with the reader right after the type byte.
C11_CommandTypeMapping ==
    (Ran("SpliceCommand::try_from") /\ Len(data) > 0) =>
        IF data[1] \in DOMAIN C11_Types
        THEN /\ ~Failed("UnrecognisedSpliceCommandType")
             /\ Ok => command_type(result.val) = C11_Types[data[1]]
             /\ data[1] \in {0, 7} => (Ok /\ result.pos = 8)
        ELSE /\ Failed("UnrecognisedSpliceCommandType")
             /\ result.err = <<"UnrecognisedSpliceCommandType", data[1]>>
             /\ result.pos = 8

\* a BandwidthReservation followed by bytes that are left unread
C11_BandwidthReservationTakesOneByte ==
    /\ Ran("SpliceCommand::try_from")
    /\ data = <<7>> \o Fill(MaxTrail)
    /\ Ok
    /\ command_type(result.val) = "BandwidthReservation"
    /\ result.pos = 8

\* C12: a section whose splice_command_length is the length of the command
\* body (the type byte not counted), whose descriptor_loop_length is the
\* length of its descriptors and whose descriptor_length fields are the
\* lengths of the descriptor bodies is parsed Ok with no non-fatal error.
C12_ExactLengthsRecordNothing ==
    (Ran("SpliceInfoSection::from") /\ data \in ExactLengthSections)
    => (Ok /\ result.nfe = <<>>)

\* a TimeSignal section with two descriptors
C12_ExactSectionWithTwoDescriptors ==
    /\ Ran("SpliceInfoSection::from")
    /\ data \in ExactLengthSections
    /\ Ok
    /\ result.nfe = <<>>
    /\ command_type(result.val.splice_command) = "TimeSignal"
    /\ Len(result.val.splice_descriptors) = 2

\* the descriptors from the i-th on are those that start at byte offset off
\* and follow one another, and the last one ends where the reader stopped
RECURSIVE C13_DescriptorsInOrder(_, _, _)
C13_DescriptorsInOrder(ds, i, off) ==
    IF i > Len(ds) THEN off * 8 = result.pos
    ELSE /\ off + 2 <= Len(data)
         /\ SpliceDescriptorTag_try_from(data[off + 1]) = [ok |-> TRUE, v |-> ds[i].tag]
         /\ C13_DescriptorsInOrder(ds, i + 1, off + 2 + data[off + 2])

\* the same for the children of a MID: type, length and, for the string
\* types, the bytes of each child
RECURSIVE C13_ChildrenInOrder(_, _, _)
C13_ChildrenInOrder(mid, i, off) ==
    IF i > Len(mid) THEN off * 8 = result.pos
    ELSE /\ off + 2 <= Len(data)
         /\ SegmentationUPIDType_try_from(data[off + 1])
                = [ok |-> TRUE, v |-> mid[i].type]
         /\ mid[i].upid_length = data[off + 2]
         /\ mid[i].type \in {"UserDefined", "ADI"} =>
                mid[i].v = SubSeq(data, off + 3, off + 2 + data[off + 2])
         /\ C13_ChildrenInOrder(mid, i + 1, off + 2 + data[off + 2])

\* C13: the descriptors a descriptor loop returns are, in order, the
\* descriptors whose bytes follow one another in the loop, and the children
\* of a MID are, in order, the UPIDs whose bytes follow one another in its
\* payload: none is moved, dropped or repeated.  (The descriptors are
\* located by their declared lengths, so the loops taken are those in which
\* no descriptor length mismatch was recorded.)
C13_ElementsInByteOrder ==
    /\ (Ran("try_splice_descriptors_from") /\ Ok /\ result.nfe = <<>>)
        => C13_DescriptorsInOrder(result.val, 1, 0)
    /\ (Ran("SegmentationUPID::try_from") /\ Ok /\ result.val.type = "MID")
        => C13_ChildrenInOrder(result.val.v, 1, 2)

\* a loop of a TimeDescriptor followed by an AudioDescriptor
C13_TimeThenAudio ==
    /\ Ran("try_splice_descriptors_from")
    /\ Ok
    /\ result.nfe = <<>>
    /\ Len(result.val) = 2
    /\ result.val[1].tag = "TimeDescriptor"
    /\ result.val[2].tag = "AudioDescriptor"

\* the string h spells the bytes d: an optional 0x or 0X, then two
\* hexadecimal digits of either case for each byte
C14_Spells(h, d) ==
    \E p \in HexPrefixes :
        /\ Len(h) = Len(p) + 2 * Len(d)
        /\ SubSeq(h, 1, Len(p)) = p
        /\ \A i \in 1..Len(d) :
              /\ h[Len(p) + 2 * i - 1]
                    \in {HexLower[(d[i] \div 16) + 1], HexUpper[(d[i] \div 16) + 1]}
              /\ h[Len(p) + 2 * i]
                    \in {HexLower[(d[i] % 16) + 1], HexUpper[(d[i] % 16) + 1]}

\* C14: the hex entry point, given a spelling of a byte sequence (bare or
\* after 0x, in any letter case), parses that byte sequence and returns
\* what the bytes entry point returns for it: the same section or the same
\* error.
C14_HexEntryEqualsBytesEntry ==
    Ran("SpliceInfoSection::from_hex_string") =>
        /\ ~Failed("DecodeHexError") => C14_Spells(hex, data)
        /\ C14_Spells(hex, data) =>
              \E bld \in Builds :
                  result = Outcome(SpliceInfoSection_from(NewBits(bld)))

\* a section spelled in upper-case digits after 0X and parsed Ok
C14_UpperCaseSectionParsed ==
    /\ Ran("SpliceInfoSection::from_hex_string")
    /\ Len(hex) > 8
    /\ SubSeq(hex, 1, 4) = <<"0", "X", "F", "C">>
    /\ data \in ExactLengthSections
    /\ Ok
    /\ result.val.table_id = 252

\* the byte offset at which the section ends: section_length counts the
\* bytes after the first three
C15_SectionEnd == 3 + (data[2] % 16) * 256 + data[3]

\* the last four bytes of the section as a big-endian 32-bit value
\* (<<high 8 bits, low 24 bits>>)
C15_LastFourBytes ==
    <<data[C15_SectionEnd - 3],
      data[C15_SectionEnd - 2] * 65536 + data[C15_SectionEnd - 1] * 256
      + data[C15_SectionEnd]>>

C16_HeaderReachesFlag ==
    /\ Len(data) >= 5
    /\ data[2] < 64
    /\ 3 + (data[2] % 16) * 256 + data[3] <= Len(data)

\* C16: a section whose encrypted_packet flag is set fails with
\* EncryptedMessageNotSupported, whatever the encryption_algorithm bits and
\* the bytes after the flag are; no section that was parsed has the flag
\* set.
C16_EncryptedSectionsAreRefused ==
    (Ran("SpliceInfoSection::from") /\ C16_HeaderReachesFlag) =>
        /\ data[5] >= 128 => Failed("EncryptedMessageNotSupported")
        /\ Ok => data[5] < 128

\* the flag set with all encryption_algorithm bits set, before a well-formed
\* SpliceNull section body
C16_EncryptedSpliceNullRefused ==
    /\ Ran("SpliceInfoSection::from")
    /\ data = Section(3, 254, 0, <<0>>, 0, <<>>, <<>>)
    /\ Failed("EncryptedMessageNotSupported")

\* the 4 hexadecimal digits of the j-th 16-bit group of the payload that
\* starts at byte off of the buffer (j from 0)
C17_Group(off, j) ==
    <<data[off + 2 * j] \div 16, data[off + 2 * j] % 16,
      data[off + 2 * j + 1] \div 16, data[off + 2 * j + 1] % 16>>

\* the sections of the decoded identifier: count of them, the check sections
\* are one character at the indices of checks, every other section is the
\* next 16-bit group of the payload as 4 digits
C17_Layout(count, checks, off) ==
    /\ Len(result.val.v) = count
    /\ \A i \in 0..(count - 1) :
          IF i \in checks
          THEN Len(result.val.v[i + 1]) = 1
          ELSE result.val.v[i + 1] =
                   C17_Group(off, Cardinality({k \in 0..(i - 1) : k \notin checks}))

C17_Decoded(upid_type) ==
    /\ Ran("SegmentationUPID::try_from")
    /\ Ok
    /\ Len(data) >= 2
    /\ data[1] = upid_type

(***************************************************************************)
(* The fold of check_char, one hexadecimal digit a step, over digit         *)
(* sequences of any length: arg is the accumulator (adjusted_sum, 36 at    *)
(* the start), result the digit folded last with the sum and the product  *)
(* before their reduction, and after the lookup the index found in         *)
(* CHAR_ARRAY.  An overflow of the u8 arithmetic panics in a debug build   *)
(* and wraps in a release build.                                           *)
(***************************************************************************)

CheckInit ==
    /\ data = <<>>
    /\ hex = <<>>
    /\ phase = "fold"
    /\ op = "check_char"
    /\ arg = 36
    /\ result = <<>>
    /\ bits \in {NewBits(bld) : bld \in Builds}
    /\ decoded = <<>>

\* the closure of the fold applied to one character
CheckCharFold ==
    \E decimal_value \in 0..15 :
        /\ phase = "fold"
        /\ result' = [decimal_value |-> decimal_value,
                      sum |-> arg + decimal_value,
                      product |-> check_sum(arg, decimal_value) * 2,
                      st |-> "Ok"]
        /\ IF bits.build = "debug"
              /\ (arg + decimal_value > 255 \/ check_sum(arg, decimal_value) * 2 > 255)
           THEN /\ phase' = "done"
                /\ arg' = arg
           ELSE /\ phase' = "fold"
                /\ arg' = check_product(check_sum(arg, decimal_value))
        /\ UNCHANGED <<data, hex, op, bits, decoded>>

\* the character looked up for the folded accumulator
CheckCharLookup ==
    /\ phase = "fold"
    /\ phase' = "done"
    /\ result' = [index |-> check_char_index(arg),
                  st |-> IF check_char_index(arg) < 0 THEN "Panic" ELSE "Ok"]
    /\ UNCHANGED <<data, hex, op, arg, bits, decoded>>

CheckNext ==
    \/ CheckCharFold
    \/ CheckCharLookup

CheckSpec == CheckInit /\ [][CheckNext]_vars

\* C17: hyphen-separated checked hex has five sections for DeprecatedISAN
\* with the check at index 4, eight for VersionedISAN with checks at 4 and
\* 7, six for Eidr with the check at index 5; every other section is a
\* 4-digit upper-case hexadecimal group read as 16 bits.
C17_CheckedHexSections ==
    /\ C17_Decoded(5) => C17_Layout(5, {4}, 3)
    /\ C17_Decoded(6) => C17_Layout(8, {4, 7}, 3)
    /\ C17_Decoded(10) => C17_Layout(6, {5}, 5)

\* C17 as stated: six sections for DeprecatedISAN, eight for VersionedISAN,
\* seven for Eidr
C17_SixEightSevenSections ==
    /\ C17_Decoded(5) => C17_Layout(6, {4}, 3)
    /\ C17_Decoded(6) => C17_Layout(8, {4, 7}, 3)
    /\ C17_Decoded(10) => C17_Layout(7, {5}, 5)

\* the EIDR 10.5239/8BE5-E3F6-0000-0000-0000-B: five groups and the check
C17_EidrHasSixSections ==
    /\ C17_Decoded(10)
    /\ data = <<10, 12, 20, 119, 139, 229, 227, 246, 0, 0, 0, 0, 0, 0>>
    /\ result.val.v = <<<<8, 11, 14, 5>>, <<14, 3, 15, 6>>, <<0, 0, 0, 0>>,
                        <<0, 0, 0, 0>>, <<0, 0, 0, 0>>, <<11>>>>

\* the hexadecimal digits of the bytes first..last of the buffer
C18_Digits(first, last) ==
    [k \in 1..(2 * (last - first + 1)) |->
        IF k % 2 = 1 THEN data[first + (k - 1) \div 2] \div 16
        ELSE data[first + (k - 1) \div 2] % 16]

C18_Reduced(x, bound, by) == IF bound THEN x - by ELSE x

\* one digit d into the accumulator a: s = a + d less 36 when above 36,
\* p = 2 * s less 37 when 37 or more
C18_Step(a, d) ==
    C18_Reduced(2 * C18_Reduced(a + d, a + d > 36, 36),
                2 * C18_Reduced(a + d, a + d > 36, 36) >= 37, 37)

RECURSIVE C18_Accumulate(_, _, _)
C18_Accumulate(a, digits, k) ==
    IF k > Len(digits) THEN a ELSE C18_Accumulate(C18_Step(a, digits[k]), digits, k + 1)

\* the check character over the bytes first..last, as its index in 0-9A-Z
C18_Check(first, last) ==
    IF C18_Accumulate(36, C18_Digits(first, last), 1) = 1 THEN 0
    ELSE 37 - C18_Accumulate(36, C18_Digits(first, last), 1)

\* C18: each check character is the ISAN v2 check character over all the
\* hexadecimal digits of the 4-digit groups emitted before it, the earlier
\* check character left out: from 36, each digit d takes the accumulator a
\* to p, where s = a + d less 36 when s > 36 and p = 2 * s less 37 when
\* p >= 37; the character is '0' when the accumulator ends at 1 and the one
\* at index 37 - accumulator of 0-9A-Z otherwise.
C18_CheckCharacters ==
    /\ C17_Decoded(5) => result.val.v[5] = <<C18_Check(3, 10)>>
    /\ C17_Decoded(6) => /\ result.val.v[5] = <<C18_Check(3, 10)>>
                         /\ result.val.v[8] = <<C18_Check(3, 14)>>
    /\ C17_Decoded(10) => result.val.v[6] = <<C18_Check(5, 14)>>

\* the ISAN 0000-0000-3A8D-0000-Z-0000-0000-6: the second check character
\* is over the six groups, without the Z
C18_SecondCheckLeavesFirstOut ==
    /\ C17_Decoded(6)
    /\ data = <<6, 12, 0, 0, 0, 0, 58, 141, 0, 0, 0, 0, 0, 0>>
    /\ result.val.v[5] = <<35>>
    /\ result.val.v[8] = <<6>>

\* the raw bytes SegmentationTypeID::try_from accepts
C19_Accepted == {v \in 0..255 : SegmentationTypeID_try_from(v).ok}

\* count raw bytes are accepted; the byte that was converted is either
\* accepted, to a code no other accepted byte is mapped to and whose value()
\* is that byte, or refused with UnrecognisedSegmentationTypeID of that byte
C19_Mapping(count) ==
    Ran("SegmentationTypeID::try_from") =>
        /\ Cardinality(C19_Accepted) = count
        /\ Ok => /\ SegmentationTypeID_value(result.val) = arg
                 /\ \A w \in C19_Accepted \ {arg} :
                        SegmentationTypeID_try_from(w).v # result.val
        /\ ~Ok => /\ result.st = "Err"
                  /\ result.err = <<"UnrecognisedSegmentationTypeID", arg>>

\* C19: SegmentationTypeID::try_from accepts exactly 46 distinct raw bytes,
\* each mapped to a distinct named code whose value() returns that byte;
\* every other byte v yields Err(UnrecognisedSegmentationTypeID(v)).
C19_FortySixCodes == C19_Mapping(46)

\* C19 as stated: exactly 47 raw bytes are accepted
C19_FortySevenCodes == C19_Mapping(47)

\* 0x51 is NetworkEnd, the last code of the table, and 0x52 is refused
C19_NetworkEndAccepted ==
    /\ Ran("SegmentationTypeID::try_from")
    /\ arg = 81
    /\ Ok
    /\ result.val = "NetworkEnd"

C20_Direct ==
    <<"CompleteMain", "MusicAndEffects", "VisuallyImpaired", "HearingImpaired",
      "Dialogue", "Commentary", "Emergeny">>

C20_Refused(bsmod, acmod) ==
    /\ result.st = "Err"
    /\ result.err = <<"InvalidBitStreamMode", bsmod, acmod>>

\* an audio descriptor whose first component is all in the buffer and has
\* bsmod 7 with the num_channels flag unset
C20_UnflaggedComponent ==
    /\ Len(data) >= 12
    /\ data[1] = 4
    /\ data[7] >= 16
    /\ data[12] \div 16 = 14

\* C20: bsmod 0..6 gives the directly mapped mode whatever acmod is; bsmod
\* 7 gives VoiceOver for Some(1), Karaoke for Some(2..7) and
\* InvalidBitStreamMode{bsmod, acmod} for None, Some(0) and acmod above 7;
\* an audio component with bsmod 7 and the num_channels flag unset fails
\* the parse.
C20_BitStreamModes ==
    /\ (Ran("BitStreamMode::try_from") /\ arg \in 0..6) =>
           (Ok /\ result.val = C20_Direct[arg + 1])
    /\ (Ran("BitStreamMode::try_from") /\ arg = 7 /\ Len(data) = 1) =>
           C20_Refused(7, None)
    /\ (Ran("BitStreamMode::try_from") /\ arg = 7 /\ Len(data) = 2) =>
           CASE data[2] = 1 -> Ok /\ result.val = "VoiceOver"
             [] data[2] \in 2..7 -> Ok /\ result.val = "Karaoke"
             [] OTHER -> C20_Refused(7, Some(data[2]))
    /\ (Ran("SpliceDescriptor::try_from") /\ C20_UnflaggedComponent) =>
           result.st = "Err"

\* an audio descriptor of one component with bsmod 7, the flag unset and 2
\* encoded channels is refused with acmod None
C20_UnflaggedComponentRefused ==
    /\ Ran("SpliceDescriptor::try_from")
    /\ data = Framed(4, 0, CUEIBytes \o <<31, 7, 101, 110, 103, 228>>)
    /\ C20_Refused(7, None)

\* C21: value() is 0 for Type1, 1 for Type2, 2 for Type3 and 3 for
\* Unspecified: it gives back the 2 bits the variant was decoded from, so
\* the four variants have four distinct raw values.
C21_ValueInvertsDecode ==
    Ran("SAPType::value") => result.val = arg

\* value() was taken of Type3, the variant that raw 0x2 decodes to, and
\* returned 0x3, the raw value of Unspecified
C21_Type3ValueIsThree ==
    /\ Ran("SAPType::value")
    /\ data = <<2>>
    /\ SAPType_from(arg) = "Type3"
    /\ result.val = 3

C22_CommandTypes ==
    {"SpliceNull", "SpliceSchedule", "SpliceInsert", "TimeSignal",
     "BandwidthReservation", "PrivateCommand"}

\* C22: a command decoded from the type byte t has command_type().value()
\* equal to t, and each of the six command types x is what
\* SpliceCommandType::try_from(x.value()) returns.
C22_CommandTypeRoundTrip ==
    (Ran("SpliceCommand::try_from") /\ Ok) =>
        /\ SpliceCommandType_value(command_type(result.val)) = data[1]
        /\ \A x \in C22_CommandTypes :
              SpliceCommandType_try_from(SpliceCommandType_value(x)) =
                  [ok |-> TRUE, v |-> x]

\* a private command decoded from the type byte 0xff
C22_PrivateCommandIsType255 ==
    /\ Ran("SpliceCommand::try_from")
    /\ Ok
    /\ data[1] = 255
    /\ command_type(result.val) = "PrivateCommand"
    /\ SpliceCommandType_value(command_type(result.val)) = 255

\* the calls that read or consume bits; arg is the number of bits asked for
C23_Reads ==
    {"Bits::u8", "Bits::u16", "Bits::u32", "Bits::u64", "Bits::bool", "Bits::byte",
     "Bits::consume", "Bits::string", "Bits::bytes"}

C24_ValidateOnlyReports ==
    [][op' = "Bits::validate" =>
          /\ result'.st = (IF bits_remaining(bits) < arg' THEN "Err" ELSE "Ok")
          /\ result'.st = "Err" =>
                 result'.err = <<"UnexpectedEndOfData", arg', bits_remaining(bits),
                                "description">>
          /\ bits'.pos = bits.pos
          /\ bits_remaining(bits') = bits_remaining(bits)
          /\ bits'.nfe = bits.nfe
          /\ Live(bits')]_vars

\* 9 bits asked for when 5 of one byte are left, after 3 were read and an
\* error was pushed
C24_ValidateFailedMidByte ==
    /\ phase = "bits"
    /\ op = "Bits::validate"
    /\ arg = 9
    /\ Len(data) = 1
    /\ bits.pos = 3
    /\ Len(bits.nfe) = 1
    /\ result.st = "Err"
    /\ result.err = <<"UnexpectedEndOfData", 9, 5, "description">>

\* the bits left where the SpliceTime starts
C25_Left == 8 * Len(data) - arg

C25_EndOfData ==
    /\ Failed("UnexpectedEndOfData")
    /\ result.val = <<>>

\* C25: SpliceTime reads the 1-bit time_specified_flag; set, it skips 6
\* reserved bits and returns pts_time = Some(the next 33 bits), 40 bits in
\* all; unset, it skips 7 reserved bits and returns pts_time = None, 8 bits
\* in all; it returns Err(UnexpectedEndOfData) and no value when less than
\* 1 bit is left before the flag, less than 39 after a set flag or less
\* than 7 after an unset flag.
C25_SpliceTimeLayout ==
    Ran("SpliceTime::try_from") =>
        IF C25_Left < 1 THEN C25_EndOfData
        ELSE IF Bit(arg) = 1
        THEN IF C25_Left - 1 < 39 THEN C25_EndOfData
             ELSE /\ Ok
                  /\ result.val.pts_time = Some(Wide(arg + 7, 33))
                  /\ result.pos = arg + 40
        ELSE IF C25_Left - 1 < 7 THEN C25_EndOfData
             ELSE /\ Ok
                  /\ result.val.pts_time = None
                  /\ result.pos = arg + 8

\* the splice_time of a TimeSignal, after the command's type byte: flag
\* set, pts_time of 33 bits with the top bit set
C25_TimeSignalPts ==
    /\ Ran("SpliceTime::try_from")
    /\ arg = 8
    /\ Len(data) = 6
    /\ data[2] = 255
    /\ Ok
    /\ result.val.pts_time = Some(<<256 + data[3], 65536 * data[4] + 256 * data[5] + data[6]>>)
    /\ result.pos = 48

\* a UPID of type t was decoded from a buffer that holds the upid_length
\* bytes it declares
C26_Declared(t) ==
    /\ Ran("SegmentationUPID::try_from")
    /\ Len(data) >= 2
    /\ data[1] = t
    /\ Len(data) >= 2 + data[2]

C26_Refused(kind) ==
    /\ result.st = "Err"
    /\ result.err = <<kind, data[2]>>
    /\ result.pos = 16

\* C26: an MPU with upid_length < 4 fails with
\* InvalidMPUInSegmentationUPID{upid_length} and an ATSCContentIdentifier
\* with upid_length < 4 with InvalidATSCContentIdentifierInUPID{upid_length},
\* before any bit of the body is consumed; with upid_length >= 4 the
\* private_data and the content_id hold exactly upid_length - 4 bytes.
C26_ShortMPUAndATSC ==
    /\ C26_Declared(12) =>
          IF data[2] < 4 THEN C26_Refused("InvalidMPUInSegmentationUPID")
          ELSE /\ ~Failed("InvalidMPUInSegmentationUPID")
               /\ Ok => result.val.v.private_data = SubSeq(data, 7, 2 + data[2])
    /\ C26_Declared(11) =>
          IF data[2] < 4 THEN C26_Refused("InvalidATSCContentIdentifierInUPID")
          ELSE /\ ~Failed("InvalidATSCContentIdentifierInUPID")
               /\ Ok => result.val.v.content_id = SubSeq(data, 7, 2 + data[2])

\* an MPU of 3 bytes, all there, is refused at the end of its length byte
C26_MPUOfThreeBytes ==
    /\ C26_Declared(12)
    /\ data[2] = 3
    /\ C26_Refused("InvalidMPUInSegmentationUPID")

C27_Private ==
    /\ Ran("SpliceCommand::try_from")
    /\ Len(data) >= 1
    /\ data[1] = 255

\* C27: with splice_command_length L >= 4 a private command is the 4-byte
\* identifier and exactly L - 4 payload bytes; with L in 0..3 the decoder
\* returns an error; it never reads past the L bytes that were validated.
C27_PrivateLengthBelowFourIsAnError ==
    C27_Private =>
        /\ (arg >= 4 /\ Ok) =>
               /\ result.val.identifier = SubSeq(data, 2, 5)
               /\ result.val.private_bytes = SubSeq(data, 6, 1 + arg)
        /\ arg \in 0..3 => result.st = "Err"
        /\ result.pos <= 8 + 8 * arg

\* a private command of declared length 0 whose identifier is there: the
\* decoder panics, in a debug build at the subtraction and in a release
\* build at a read past the end of the buffer
C27_PanicOnShortPrivateLength ==
    /\ C27_Private
    /\ arg = 0
    /\ Len(data) >= 5
    /\ result.st = "Panic"

\* C28: the descriptor loop and the child loop of a MID terminate on every
\* input: an iteration that does not end the decoder with an error leaves
\* at least 16 bits fewer, so the loop condition becomes false and the
\* decoder returns, also for zero-length descriptors and for zero-length
\* and nested MID children.
C28_LoopsTerminate ==
    /\ [][(phase \in {"descriptors", "mid"} /\ phase' = phase) =>
              bits_remaining(bits') + 16 <= bits_remaining(bits)]_vars
    /\ (phase \in {"descriptors", "mid"}) ~> (phase = "done")

\* a MID of two empty MIDs inside a MID, left after its one child
C28_NestedEmptyMIDs ==
    /\ phase = "done"
    /\ op = "SegmentationUPID::try_from"
    /\ data = <<13, 6, 13, 4, 13, 0, 13, 0>>
    /\ Ok
    /\ Len(result.val.v) = 1
    /\ Len(result.val.v[1].v) = 2
    /\ result.pos = 64

\* C29: in check_char the accumulator stays in 1..36 after every digit of
\* every sequence of hexadecimal digits, the u8 arithmetic does not overflow
\* (the sum is at most 51, the product at most 72), and the index looked up
\* when the accumulator is not 1, 37 less the accumulator, lies in 1..35 of
\* the 36-character table, so the lookup never fails.
C29_AccumulatorInRange ==
    op = "check_char" =>
        /\ arg \in 1..36
        /\ result # <<>> => result.st = "Ok"
        /\ (result # <<>> /\ phase = "fold") =>
               /\ result.sum <= 51
               /\ result.product <= 72
               /\ result.product # 37
        /\ phase = "done" =>
               /\ result.index \in 0..(CHAR_ARRAY_LEN - 1)
               /\ arg # 1 => /\ result.index = 37 - arg
                             /\ result.index \in 1..35
               /\ arg = 1 => result.index = 0

\* the digit 15 folded into the accumulator 36: the sum 51 is reduced to 15
\* and the product 30 kept
C29_LargestSum ==
    /\ op = "check_char"
    /\ phase = "fold"
    /\ result # <<>>
    /\ result.sum = 51
    /\ arg = 30

\* the lookup at the accumulator 36: the character at index 1
C29_LookupAtThirtySix ==
    /\ op = "check_char"
    /\ phase = "done"
    /\ arg = 36
    /\ result.index = 1

\* C30: a UPID of any type but MID that is decoded consumes its type byte,
\* its length byte and exactly the upid_length bytes declared: the types of
\* a fixed layout read the bytes their length check requires, the others
\* the declared length.
C30_Decoded ==
    /\ Ran("SegmentationUPID::try_from")
    /\ Ok
    /\ Len(data) >= 2
    /\ data[1] # 13

C30_ConsumesDeclaredLength ==
    C30_Decoded =>
        /\ result.pos = 16 + 8 * data[2]
        /\ result.pos <= 8 * Len(data)

\* a UMID, of 32 bytes in eight groups, with a byte after it left unread
C30_UMIDOfThirtyTwoBytes ==
    /\ C30_Decoded
    /\ data[1] = 4
    /\ data[2] = 32
    /\ Len(data) > 34
    /\ result.pos = 272

====
